---- MODULE Spec2Model ----
(***************************************************************************)
(* A model of the event pipeline of the news monitor: the Event Record     *)
(* (models/events.py), its in-memory Event Store, the enrichment step of   *)
(* the scrapers (scrapers/base.py, scrapers/rss_base.py,                   *)
(* scrapers/liveuamap.py), the classifier and severity heuristic           *)
(* (processing/categorizer.py) and the duplicate predicate                 *)
(* (processing/deduplicator.py).                                           *)
(*                                                                         *)
(* The module holds several state machines over disjoint variables.  Each  *)
(* has its own specification; the variables of the other machines stay at  *)
(* their idle values.                                                      *)
(*   SpecStore   EventStore: add, add_many, get_all, clear                 *)
(*   SpecId      NewsEvent.model_post_init: the derivation of the id       *)
(*   SpecEnrich  NewsEvent construction, _try_api / parse, _enrich         *)
(*   SpecDedup   _similar and _is_duplicate on a pair of records           *)
(*   SpecBatch   deduplicate, then deduplicate_against_existing            *)
(*   SpecFetch   scrape of the three kinds of scraper, _fetch, TTLCache    *)
(*   SpecFan     _run_all_scrapers: the pool, as_completed, the timeout    *)
(***************************************************************************)
EXTENDS Integers, Sequences, FiniteSets, TLC

VARIABLES
    \* ---- EventStore (models/events.py) ----
    _max_events,        \* EventStore._max_events
    _events,            \* EventStore._events: the dict, as the sequence of its
                        \* values in insertion order (ids are unique in it)
    op,                 \* the last operation called on the store
    arg,                \* the record passed to the last add
    addRet,             \* what the last add returned
    added,              \* what the last add_many returned
    addLog,             \* what each add inside the last add_many returned
    with_location_only, \* the flag of the last get_all
    listing,            \* the list the last get_all returned
    listingAliased,     \* TRUE iff that list is the store's own container
    distinctRun,        \* history: TRUE iff the records passed to add since
                        \* the store was created or cleared have pairwise
                        \* distinct ids and pairwise distinct timestamps
    inserted,           \* history: those records, while distinctRun holds
    \* ---- NewsEvent identity (models/events.py) ----
    rawTitle,           \* the title text a scraper extracted
    rawSource,          \* the scraper's SOURCE_NAME
    now,                \* the wall clock
    first,              \* the record built from the headline at the first fetch
    firstAt,            \* the wall clock when it was built
    second,             \* the record built from it at a later fetch
    secondAt,           \* the wall clock when that one was built
    \* ---- a scraper's record: build, enrich, return (scrapers/) ----
    path,               \* which code built the record: "api", "markup",
                        \* "rss", "custom"; "" before
    given,              \* history: the keyword arguments NewsEvent was called with
    ev,                 \* the record, None before it is built
    enrichCount,        \* how many times _enrich has been applied to it
    returned,           \* the list scrape returned
    \* ---- the duplicate predicate (processing/deduplicator.py) ----
    dEvent,             \* the record _is_duplicate was last called with
    dExisting,          \* the record it was compared with
    dCompared,          \* TRUE once _is_duplicate has been called
    dResult,            \* what it returned
    \* ---- deduplicate, deduplicate_against_existing (deduplicator.py) ----
    bBatch,             \* the merged batch of a refresh, in input order
    bExisting,          \* what event_store.get_all() returned
    bStage,             \* "start", "deduped", "filtered"
    bKept,              \* what deduplicate(bBatch) returned
    bNovel,             \* what the pass against the store left of bKept
    \* ---- one scraper: scrape, _fetch, the response cache (scrapers/) ----
    fNow,               \* the wall clock, in seconds
    fTicks,             \* how many times the clock has advanced
    cache,              \* _response_cache._store: url -> None or <<ts, text>>
    fPc,                \* "idle", "attempt" (inside _fetch's loop),
                        \* "fetched" (_fetch is over), "done" (scrape is over)
    fScraper,           \* the scraper whose scrape is running or ran last
    fAttempt,           \* _fetch's loop variable
    fCallAt,            \* history: the clock when _fetch was called
    fKnown,             \* history: url -> None or <<time, text>> of the last
                        \* successful HTTP attempt
    fLog,               \* history: the outcome of each HTTP attempt of this
                        \* _fetch call
    fSleeps,            \* history: the number of backoff sleeps of this call
    fResult,            \* what _fetch returned or raised
    sFailure,           \* history: the failure that ended the scrape, "" if none
    sOut,               \* what scrape returned or raised
    \* ---- _run_all_scrapers: the fan-out over the scrapers (app.py) ----
    gNow,               \* the clock: an index into Instants
    fut,                \* source -> the future of its scrape: state
                        \* ("running", "finished", "cancelled"), result,
                        \* and the second it finished at
    gFetchFailed,       \* history: source -> TRUE iff its scrape got no
                        \* content (every attempt failed, or the feed did)
    gPc,                \* where _run_all_scrapers is: "check" and "wait"
                        \* (inside as_completed), "timeout" (the handler),
                        \* "exit" (leaving the with block), "returned"
    pending,            \* as_completed: the futures not yet yielded
    finishedQ,          \* as_completed: the waiter's finished futures
    all_events,         \* all_events, before the dedup passes
    errors,             \* errors
    gAsked,             \* history: the futures cancel() was called on
    gRunningAtExit,     \* history: the futures still running when the
                        \* loop over as_completed was left
    \* ---- extract_locations (processing/geocoder.py) ----
    geoText,            \* the text searched
    geoDone,            \* TRUE once the text has been searched
    geoLocations,       \* what extract_locations returned
    geoPrimary,          \* what extract_primary_location returned
    \* ---- _do_refresh: the refresh cycles (app.py) ----
    rNow,               \* the wall clock, in minutes
    event_store,        \* st.session_state.event_store._events, as _events
    rPc,                \* "idle", or "merged": the fan-out of a refresh is
                        \* over, all_events is merged
    rMerged,            \* all_events of the last fan-out, before dedup
    rOutcome,           \* the last _do_refresh: whether it raised, and the
                        \* count add_many returned
    rCycles,             \* how many refreshes have run
    \* ---- EventStore under two threads (models/events.py) ----
    started,            \* history: the contents of the store before the calls
    threads             \* thread -> its call and where it is in it

storeVars == <<_max_events, _events, op, arg, addRet, added, addLog,
               with_location_only, listing, listingAliased, distinctRun,
               inserted>>

idVars == <<rawTitle, rawSource, now, first, firstAt, second, secondAt>>

enrichVars == <<path, given, ev, enrichCount, returned>>

dedupVars == <<dEvent, dExisting, dCompared, dResult>>

batchVars == <<bBatch, bExisting, bStage, bKept, bNovel>>

fetchVars == <<fNow, fTicks, cache, fPc, fScraper, fAttempt, fCallAt, fKnown,
               fLog, fSleeps, fResult, sFailure, sOut>>

fanVars == <<gNow, fut, gFetchFailed, gPc, pending, finishedQ, all_events,
             errors, gAsked, gRunningAtExit>>

geoVars == <<geoText, geoDone, geoLocations, geoPrimary>>

cycleVars == <<rNow, event_store, rPc, rMerged, rOutcome, rCycles>>

concVars == <<started, threads>>

vars == <<storeVars, idVars, enrichVars, dedupVars, batchVars, fetchVars,
          fanVars,
          geoVars,
          cycleVars,
          concVars>>

\* What a step of one machine leaves alone: the other machines.
StoreFrame ==
    UNCHANGED <<idVars, enrichVars, dedupVars, batchVars, fetchVars,
               fanVars,
               geoVars,
               cycleVars,
               concVars>>

IdFrame ==
    UNCHANGED <<storeVars, enrichVars, dedupVars, batchVars, fetchVars,
               fanVars,
               geoVars,
               cycleVars,
               concVars>>

(***************************************************************************)
(* Optional[float]: None is the empty tuple, a value x is <<x>>.           *)
(***************************************************************************)
None == <<>>

Some(x) == <<x>>

Range(s) == {s[i] : i \in 1..Len(s)}

(***************************************************************************)
(*                              EventStore                                 *)
(***************************************************************************)

\* The largest capacity the store is created with in the model.
MaxCap == 2

\* NewsEvent.has_location
has_location(e) == e.latitude # None /\ e.longitude # None

\* event.id in self._events
HasId(evs, id) == \E i \in 1..Len(evs) : evs[i].id = id

\* One step of a stable ascending sort by timestamp: e goes after every
\* element whose timestamp is not larger.
InsertAsc(sorted, e) ==
    LET c == Cardinality({i \in 1..Len(sorted) : sorted[i].timestamp <= e.timestamp})
    IN  SubSeq(sorted, 1, c) \o <<e>> \o SubSeq(sorted, c + 1, Len(sorted))

\* sorted(..., key=timestamp): Python's sort is stable.
RECURSIVE SortAsc(_)
SortAsc(evs) ==
    IF evs = <<>> THEN <<>>
    ELSE InsertAsc(SortAsc(SubSeq(evs, 1, Len(evs) - 1)), evs[Len(evs)])

\* One step of a stable descending sort by timestamp.
InsertDesc(sorted, e) ==
    LET c == Cardinality({i \in 1..Len(sorted) : sorted[i].timestamp >= e.timestamp})
    IN  SubSeq(sorted, 1, c) \o <<e>> \o SubSeq(sorted, c + 1, Len(sorted))

\* events.sort(key=timestamp, reverse=True): stable as well.
RECURSIVE SortDesc(_)
SortDesc(evs) ==
    IF evs = <<>> THEN <<>>
    ELSE InsertDesc(SortDesc(SubSeq(evs, 1, Len(evs) - 1)), evs[Len(evs)])

\* A trim that forgets to sort: it evicts in insertion order.
TrimInsertionOrder(evs, max) ==
    IF Len(evs) > max THEN SubSeq(evs, Len(evs) - max + 1, Len(evs)) ELSE evs

\* A trim that is off by one: it leaves one record too many.
TrimOffByOne(evs, max) ==
    IF Len(evs) > max + 1
    THEN LET sorted == SortAsc(evs)
             doomed == {sorted[i].id : i \in 1..(Len(evs) - max - 1)}
         IN  SelectSeq(evs, LAMBDA e : e.id \notin doomed)
    ELSE evs

\* EventStore._trim
_trim(evs, max) ==
    IF Len(evs) > max
    THEN LET sorted == SortAsc(evs)
             doomed == {sorted[i].id : i \in 1..(Len(evs) - max)}
         IN  SelectSeq(evs, LAMBDA e : e.id \notin doomed)
    ELSE evs

\* An add that overwrites the stored record when the id is already present.
AddOverwrite(evs, max, event) ==
    IF HasId(evs, event.id)
    THEN [events |-> [i \in 1..Len(evs) |->
                         IF evs[i].id = event.id THEN event ELSE evs[i]],
          ret |-> FALSE]
    ELSE [events |-> _trim(Append(evs, event), max), ret |-> TRUE]

\* EventStore.add: the new contents of the dict and the value returned.
add(evs, max, event) ==
    IF HasId(evs, event.id)
    THEN [events |-> evs, ret |-> FALSE]
    ELSE [events |-> _trim(Append(evs, event), max), ret |-> TRUE]

\* The loop of EventStore.add_many: the contents, the counter and the result
\* of each add, after the records of batch have been added in order.
RECURSIVE AddLoop(_, _, _)
AddLoop(evs, max, batch) ==
    IF batch = <<>> THEN [events |-> evs, added |-> 0, log |-> <<>>]
    ELSE LET before == AddLoop(evs, max, SubSeq(batch, 1, Len(batch) - 1))
             last   == add(before.events, max, batch[Len(batch)])
         IN  [events |-> last.events,
              added  |-> IF last.ret THEN before.added + 1 ELSE before.added,
              log    |-> Append(before.log, last.ret)]

\* An add_many that counts every record it was given.
AddManyCountAll(evs, max, batch) ==
    [AddLoop(evs, max, batch) EXCEPT !.added = Len(batch)]

\* EventStore.add_many
add_many(evs, max, batch) == AddLoop(evs, max, batch)

\* A get_all that sorts oldest-first.
GetAllAscending(evs, flag) ==
    [list    |-> SortAsc(IF flag THEN SelectSeq(evs, has_location) ELSE evs),
     aliased |-> FALSE]

\* A get_all that hands out the store's own container.
GetAllNoCopy(evs, flag) ==
    [list |-> evs, aliased |-> TRUE]

\* EventStore.get_all: list(values) and the list comprehension build a new
\* list, which is then sorted in place and returned.
get_all(evs, flag) ==
    [list    |-> SortDesc(IF flag THEN SelectSeq(evs, has_location) ELSE evs),
     aliased |-> FALSE]

(***************************************************************************)
(* The records the store is exercised with.  The store reads a record's    *)
(* id, timestamp, latitude and longitude only.  All timestamps are         *)
(* mutually comparable, as they are for the records app.py adds: both      *)
(* dedup passes subtract the timestamps of the batch from each other and   *)
(* from the stored ones before add_many runs.                              *)
(***************************************************************************)
NumClean == MaxCap + 5

\* Records with pairwise distinct ids and timestamps.  A third of them has
\* both coordinates, a third none, a third a latitude only.
CleanEvent(i) ==
    [id        |-> i,
     timestamp |-> 10 * i,
     latitude  |-> IF i % 3 = 1 THEN None ELSE Some(30 + i),
     longitude |-> IF i % 3 = 0 THEN Some(50 + i) ELSE None]

\* The headline of CleanEvent(1) fetched again later: same id, newer time.
RefetchedEvent ==
    [id |-> 1, timestamp |-> 10 * NumClean + 5,
     latitude |-> Some(31), longitude |-> Some(51)]

\* Another headline published at the very time of CleanEvent(2).
TiedEvent ==
    [id |-> NumClean + 1, timestamp |-> 20,
     latitude |-> None, longitude |-> Some(52)]

StorePool == {CleanEvent(i) : i \in 1..NumClean} \cup {RefetchedEvent, TiedEvent}

\* The value of arg when the last operation was not an add.
NoEvent == [id |-> 0, timestamp |-> 0, latitude |-> None, longitude |-> None]

\* The lists passed to add_many: the empty list, lists of new records, a
\* list that repeats a record, lists in which two records share an id.
Batches ==
    {<<>>,
     <<CleanEvent(1)>>,
     <<CleanEvent(2), CleanEvent(2)>>,
     <<CleanEvent(1), RefetchedEvent>>,
     <<RefetchedEvent, CleanEvent(3), CleanEvent(1)>>,
     <<CleanEvent(4), TiedEvent, CleanEvent(2)>>}

\* No two different records of S share an id or a timestamp.
DistinctIdsTs(S) ==
    \A a \in S : \A b \in S :
        a # b => a.id # b.id /\ a.timestamp # b.timestamp

\* The history of the records passed to add: kept while they are distinct.
Record(new) ==
    LET all == inserted \cup new
    IN  IF distinctRun /\ DistinctIdsTs(all)
        THEN distinctRun' = TRUE /\ inserted' = all
        ELSE distinctRun' = FALSE /\ inserted' = {}

StoreResultsReset ==
    /\ arg' = NoEvent
    /\ addRet' = FALSE
    /\ added' = 0
    /\ addLog' = <<>>
    /\ with_location_only' = FALSE
    /\ listing' = <<>>
    /\ listingAliased' = FALSE

\* EventStore.__init__
StoreStart ==
    /\ _max_events \in 1..MaxCap
    /\ _events = <<>>
    /\ op = "init"
    /\ arg = NoEvent
    /\ addRet = FALSE
    /\ added = 0
    /\ addLog = <<>>
    /\ with_location_only = FALSE
    /\ listing = <<>>
    /\ listingAliased = FALSE
    /\ distinctRun = TRUE
    /\ inserted = {}

\* The effect of store.add(event) on the store and on the results.
AddBody(event) ==
    LET r == add(_events, _max_events, event)
    IN  /\ _events' = r.events
        /\ op' = "add"
        /\ arg' = event
        /\ addRet' = r.ret
        /\ Record({event})
        /\ added' = 0
        /\ addLog' = <<>>
        /\ with_location_only' = FALSE
        /\ listing' = <<>>
        /\ listingAliased' = FALSE
        /\ UNCHANGED _max_events

\* store.add(event)
Add(event) == AddBody(event) /\ StoreFrame

\* store.add_many(batch)
AddMany(batch) ==
    LET r == add_many(_events, _max_events, batch)
    IN  /\ _events' = r.events
        /\ op' = "add_many"
        /\ added' = r.added
        /\ addLog' = r.log
        /\ Record(Range(batch))
        /\ arg' = NoEvent
        /\ addRet' = FALSE
        /\ with_location_only' = FALSE
        /\ listing' = <<>>
        /\ listingAliased' = FALSE
        /\ UNCHANGED _max_events
        /\ StoreFrame

\* store.get_all(with_location_only=flag)
GetAll(flag) ==
    LET r == get_all(_events, flag)
    IN  /\ listing' = r.list
        /\ listingAliased' = r.aliased
        /\ with_location_only' = flag
        /\ op' = "get_all"
        /\ _events' = IF r.aliased THEN r.list ELSE _events
        /\ arg' = NoEvent
        /\ addRet' = FALSE
        /\ added' = 0
        /\ addLog' = <<>>
        /\ UNCHANGED <<_max_events, distinctRun, inserted>>
        /\ StoreFrame

\* The caller changes the list get_all returned (del listing[0]).  If the
\* list were the store's own container the store would change with it.
MutateListing ==
    /\ op \in {"get_all", "mutate"}
    /\ listing # <<>>
    /\ listing' = Tail(listing)
    /\ _events' = IF listingAliased THEN Tail(listing) ELSE _events
    /\ op' = "mutate"
    /\ UNCHANGED <<_max_events, arg, addRet, added, addLog,
                   with_location_only, listingAliased, distinctRun, inserted>>
    /\ StoreFrame

\* EventStore.clear
Clear ==
    /\ _events' = <<>>
    /\ op' = "clear"
    /\ distinctRun' = TRUE
    /\ inserted' = {}
    /\ StoreResultsReset
    /\ UNCHANGED _max_events
    /\ StoreFrame

StoreNext ==
    \/ \E event \in StorePool : Add(event)
    \/ \E batch \in Batches : AddMany(batch)
    \/ \E flag \in BOOLEAN : GetAll(flag)
    \/ MutateListing
    \/ Clear

(***************************************************************************)
(*                 NewsEvent: construction and identity                    *)
(***************************************************************************)

\* Strings are sequences of characters.  The characters of the model, in
\* the order of the codes the digest gives them.
Alphabet ==
    <<" ", "1", "A", "B", "C", "L", "N",
      "a", "b", "c", "d", "e", "f", "g", "h", "i", "j", "k", "l", "m",
      "n", "o", "p", "q", "r", "s", "t", "u", "v", "w", "x", "y", "z", "|",
      "D", "E", "F", "G", "H", "I", "J", "K", "M", "O", "P", "Q", "R", "S",
      "T", "U", "V", "W", "X", "Y", "Z", ",">>

Code(c) == CHOOSE i \in 1..Len(Alphabet) : Alphabet[i] = c

\* The letters, in both cases.
Uppers ==
    <<"A", "B", "C", "D", "E", "F", "G", "H", "I", "J", "K", "L", "M",
      "N", "O", "P", "Q", "R", "S", "T", "U", "V", "W", "X", "Y", "Z">>

Lowers ==
    <<"a", "b", "c", "d", "e", "f", "g", "h", "i", "j", "k", "l", "m",
      "n", "o", "p", "q", "r", "s", "t", "u", "v", "w", "x", "y", "z">>

\* str.lower, one character
LowerChar(c) ==
    IF \E i \in 1..Len(Uppers) : Uppers[i] = c
    THEN Lowers[CHOOSE i \in 1..Len(Uppers) : Uppers[i] = c]
    ELSE c

\* str.lower
Lower(str) == [i \in 1..Len(str) |-> LowerChar(str[i])]

IsSpace(c) == c = " "

\* str.strip: leading and trailing whitespace removed
RECURSIVE Strip(_)
Strip(str) ==
    IF str = <<>> THEN <<>>
    ELSE IF IsSpace(str[1]) THEN Strip(Tail(str))
    ELSE IF IsSpace(str[Len(str)]) THEN Strip(SubSeq(str, 1, Len(str) - 1))
    ELSE str

\* The width of the digest in the model, in bits.
DigestBits == 16

\* hashlib.sha256(blob.encode()).hexdigest()[:16]: a digest of fixed width,
\* a function of the characters of blob and of nothing else.
RECURSIVE Digest(_)
Digest(blob) ==
    IF blob = <<>> THEN 7
    ELSE (Digest(SubSeq(blob, 1, Len(blob) - 1)) * 31 + Code(blob[Len(blob)]))
            % (2 ^ DigestBits)

\* NewsEvent.clamp_severity, for a number
clamp_severity(v) ==
    LET low == IF v < 5 THEN v ELSE 5
    IN  IF low > 1 THEN low ELSE 1

\* Field(ge=1, le=5)
SeverityValid(v) == v >= 1 /\ v <= 5

\* A post-init that hashes the title as given.
PostInitNoNormalise(self) ==
    IF self.id = None
    THEN [self EXCEPT !.id = Digest(self.title \o <<"|">> \o self.source_name)]
    ELSE [self EXCEPT !.id = self.id[1]]

\* NewsEvent.model_post_init
model_post_init(self) ==
    IF self.id = None
    THEN LET norm_title == Strip(Lower(self.title))
             blob == norm_title \o <<"|">> \o self.source_name
         IN  [self EXCEPT !.id = Digest(blob)]
    ELSE [self EXCEPT !.id = self.id[1]]

\* The patterns and the gazetteer found nothing in the text.
NoHits == [rules |-> {}, sev |-> {}, loc |-> None]

\* The keyword arguments of NewsEvent(...): title, source_name and
\* timestamp are always passed; the others are None when left out.  A
\* timestamp is a minute and its tzinfo: Some("UTC") for an aware datetime,
\* None for a naive one.
Kwargs(t, src, ts) ==
    [title |-> t, source_name |-> src, timestamp |-> ts, hits |-> NoHits,
     summary |-> <<>>, id |-> None, location_name |-> None, latitude |-> None,
     longitude |-> None, event_type |-> None, severity |-> None,
     tzinfo |-> Some("UTC")]

\* NewsEvent(**kw): the defaults of the fields, the severity validator, the
\* post-init.  hits stands for the text of title and summary: what the
\* patterns of the classifier and the gazetteer find in it.
NewsEvent(kw) ==
    model_post_init(
        [id            |-> kw.id,
         title         |-> kw.title,
         summary       |-> kw.summary,
         source_name   |-> kw.source_name,
         timestamp     |-> kw.timestamp,
         tzinfo        |-> kw.tzinfo,
         location_name |-> IF kw.location_name = None THEN ""
                           ELSE kw.location_name[1],
         latitude      |-> kw.latitude,
         longitude     |-> kw.longitude,
         event_type    |-> IF kw.event_type = None THEN "other"
                           ELSE kw.event_type[1],
         severity      |-> IF kw.severity = None THEN 3
                           ELSE clamp_severity(kw.severity[1]),
         hits          |-> kw.hits])

\* The headlines as first extracted.
BaseTitles ==
    {<<"a", "b">>, <<"A", "b", " ", "c">>, <<"a", "|", "B">>, <<"1", "a">>}

Sources == {<<"B", "B", "C">>, <<"C", "N", "N">>}

\* The last tick of the wall clock in the model.
MaxClock == 3

\* The number of whitespace characters a later fetch adds around a title.
MaxPad == 2

\* str.upper, one character
UpperChar(c) ==
    IF \E i \in 1..Len(Lowers) : Lowers[i] = c
    THEN Uppers[CHOOSE i \in 1..Len(Lowers) : Lowers[i] = c]
    ELSE c

IdIdle ==
    /\ rawTitle = <<>>
    /\ rawSource = <<>>
    /\ now = 0
    /\ first = None
    /\ firstAt = 0
    /\ second = None
    /\ secondAt = 0

\* A scraper is about to build a record from a headline of its source.
IdStart ==
    /\ rawTitle \in BaseTitles
    /\ rawSource \in Sources
    /\ now = 0
    /\ first = None
    /\ firstAt = 0
    /\ second = None
    /\ secondAt = 0

\* Time passes.
Tick ==
    /\ now < MaxClock
    /\ now' = now + 1
    /\ UNCHANGED <<rawTitle, rawSource, first, firstAt, second, secondAt>>
    /\ IdFrame

\* The first fetch builds a record; the timestamp is the source's publish
\* time or, without one, the fetch time.
BuildFirst(ts) ==
    /\ first = None
    /\ first' = Some(NewsEvent(Kwargs(rawTitle, rawSource, ts)))
    /\ firstAt' = now
    /\ UNCHANGED <<rawTitle, rawSource, now, second, secondAt>>
    /\ IdFrame

\* The source serves the headline again with the case of one letter changed.
Recase(i) ==
    /\ first # None /\ second = None
    /\ rawTitle[i] # LowerChar(rawTitle[i]) \/ rawTitle[i] # UpperChar(rawTitle[i])
    /\ rawTitle' = [rawTitle EXCEPT ![i] =
                       IF @ = LowerChar(@) THEN UpperChar(@) ELSE LowerChar(@)]
    /\ UNCHANGED <<rawSource, now, first, firstAt, second, secondAt>>
    /\ IdFrame

\* ... or with whitespace added in front of it or behind it.
Pad(front) ==
    /\ first # None /\ second = None
    /\ Len(rawTitle) < Len(first[1].title) + MaxPad
    /\ rawTitle' = IF front THEN <<" ">> \o rawTitle ELSE Append(rawTitle, " ")
    /\ UNCHANGED <<rawSource, now, first, firstAt, second, secondAt>>
    /\ IdFrame

\* A later fetch builds a record from the headline as served then.
BuildSecond(ts) ==
    /\ first # None /\ second = None
    /\ now > firstAt
    /\ second' = Some(NewsEvent(Kwargs(rawTitle, rawSource, ts)))
    /\ secondAt' = now
    /\ UNCHANGED <<rawTitle, rawSource, now, first, firstAt>>
    /\ IdFrame

IdNext ==
    \/ Tick
    \/ \E ts \in {0, now} : BuildFirst(ts)
    \/ \E i \in 1..Len(rawTitle) : Recase(i)
    \/ \E front \in BOOLEAN : Pad(front)
    \/ \E ts \in {0, now} : BuildSecond(ts)

(***************************************************************************)
(*               Classification, severity, location, _enrich               *)
(***************************************************************************)

\* The text of a record (title and summary) is known by what the code's
\* searches find in it: hits.rules is the set of classifier rules whose
\* pattern occurs in it, hits.sev the set of severity patterns that occur in
\* it, hits.loc what extract_primary_location returns for it.  Enrichment
\* reads the text and never writes it.

\* categorizer._RULES: the event types in priority order
_RULES ==
    <<"airstrike", "missile", "explosion", "alert", "military_movement",
      "humanitarian", "political">>

\* A classifier that keeps scanning and returns the last rule that matches.
CategorizeLastMatch(hits) ==
    IF \E i \in 1..Len(_RULES) : _RULES[i] \in hits.rules
    THEN _RULES[CHOOSE i \in 1..Len(_RULES) :
                    /\ _RULES[i] \in hits.rules
                    /\ \A j \in (i + 1)..Len(_RULES) : _RULES[j] \notin hits.rules]
    ELSE "other"

\* categorizer.categorize_event: the first rule whose pattern matches
categorize_event(hits) ==
    IF \E i \in 1..Len(_RULES) : _RULES[i] \in hits.rules
    THEN _RULES[CHOOSE i \in 1..Len(_RULES) :
                    /\ _RULES[i] \in hits.rules
                    /\ \A j \in 1..(i - 1) : _RULES[j] \notin hits.rules]
    ELSE "other"

\* The patterns of estimate_severity
SevKilled == "killed|dead|casualt|mass|catastroph"

SevStruck == "airstrike|struck|missile\\s*hit|explosion"

SevLaunch == "launch|intercept|siren|alert"

SevTalk == "condemn|urge|statement|negotiat|diplomat"

SevClosure == "suspend.*flight|close.*airspace"

Min2(x, y) == IF x < y THEN x ELSE y

Max2(x, y) == IF x > y THEN x ELSE y

\* A severity heuristic that adds up its escalations and forgets the clamp.
EstimateUnclamped(hits) ==
    LET up   == (IF SevKilled \in hits.sev THEN 2 ELSE 0)
                + (IF SevStruck \in hits.sev THEN 1 ELSE 0)
                + (IF SevLaunch \in hits.sev THEN 1 ELSE 0)
        down == (IF SevTalk \in hits.sev THEN 2 ELSE 0)
                + (IF SevClosure \in hits.sev THEN 1 ELSE 0)
    IN  3 + up - down - down

\* categorizer.estimate_severity
estimate_severity(hits) ==
    LET score0 == 3
        score1 == IF SevKilled \in hits.sev THEN 5
                  ELSE IF SevStruck \in hits.sev THEN 4
                  ELSE IF SevLaunch \in hits.sev THEN 4
                  ELSE score0
        score2 == IF SevTalk \in hits.sev THEN Min2(score1, 2) ELSE score1
        score3 == IF SevClosure \in hits.sev THEN Min2(score2, 3) ELSE score2
    IN  Max2(1, Min2(5, score3))

\* geocoder.extract_primary_location: None, or <<(name, lat, lon)>>
extract_primary_location(hits) == hits.loc

\* The steps of _enrich, in the order of the code.
EnrichType(event) ==
    IF event.event_type = "other"
    THEN [event EXCEPT !.event_type = categorize_event(event.hits)]
    ELSE event

EnrichSeverity(event) ==
    IF event.severity = 3
    THEN [event EXCEPT !.severity = estimate_severity(event.hits)]
    ELSE event

EnrichLocation(event) ==
    IF ~has_location(event)
    THEN LET loc == extract_primary_location(event.hits)
         IN  IF loc # None
             THEN [event EXCEPT !.location_name = loc[1][1],
                                !.latitude = Some(loc[1][2]),
                                !.longitude = Some(loc[1][3])]
             ELSE event
    ELSE event

EnrichSource(event, SOURCE_NAME) ==
    IF event.source_name = <<>>
    THEN [event EXCEPT !.source_name = SOURCE_NAME]
    ELSE event

\* An enrichment that raises the severity of a record each time it finds
\* the record located.
EnrichBumpLocated(event, SOURCE_NAME) ==
    LET bumped == IF has_location(event)
                  THEN [event EXCEPT !.severity = Min2(5, @ + 1)]
                  ELSE event
    IN  EnrichSource(EnrichLocation(EnrichSeverity(EnrichType(bumped))),
                     SOURCE_NAME)

\* BaseScraper._enrich
_enrich(event, SOURCE_NAME) ==
    EnrichSource(EnrichLocation(EnrichSeverity(EnrichType(event))),
                 SOURCE_NAME)

\* RSSBaseScraper._enrich: the same steps
rss_enrich(event, SOURCE_NAME) ==
    EnrichSource(EnrichLocation(EnrichSeverity(EnrichType(event))),
                 SOURCE_NAME)

\* The SOURCE_NAME of the scraper on each path.
Liveuamap == <<"L">>

CNN == <<"C", "N", "N">>

BBC == <<"B", "B", "C">>

SourceOf(p) ==
    CASE p = "api"    -> Liveuamap
      [] p = "markup" -> CNN
      [] p = "rss"    -> BBC
      [] OTHER        -> CNN

\* Coordinates, in units of 0.0001 degree.
Tehran == <<"Tehran", 356892, 513890>>

\* What the searches find in the texts of the model.
RuleHits ==
    {{}, {"political"}, {"airstrike", "humanitarian"},
     {"missile", "alert", "political"}, {"explosion", "alert"},
     {"alert", "military_movement", "humanitarian"},
     {"military_movement", "political"}, {"humanitarian", "political"}}

SevHits ==
    {{}, {SevKilled}, {SevStruck}, {SevLaunch}, {SevTalk}, {SevClosure},
     {SevKilled, SevTalk}, {SevStruck, SevLaunch, SevClosure}}

LocHits == {None, Some(Tehran)}

Texts == [rules : RuleHits, sev : SevHits, loc : LocHits]

\* The title of the records built in this machine.
Headline == <<"a", "b">>

\* The values an item of the API carries under "lat", "lng" and "lon": the
\* key is missing (None), or holds zero, or holds a coordinate.
ApiItems ==
    [hits : Texts,
     lat  : {None, Some(0), Some(340000)},
     lng  : {None, Some(0), Some(480000)},
     lon  : {None, Some(490000)}]

Truthy(v) == v # None /\ v # Some(0)

\* The keyword arguments of the NewsEvent(...) call in _try_api.
ApiKwargs(item) ==
    LET lat == item.lat
        lon == IF Truthy(item.lng) THEN item.lng ELSE item.lon
    IN  [Kwargs(Headline, Liveuamap, 0) EXCEPT
            !.hits      = item.hits,
            !.latitude  = IF Truthy(lat) THEN lat ELSE None,
            !.longitude = IF Truthy(lon) THEN lon ELSE None]

\* The keyword arguments a parse of some other scraper may pass: a severity
\* (any integer), an event type, both coordinates, an empty source name.
CustomKwargs ==
    {[Kwargs(Headline, src, 0) EXCEPT
         !.hits = h, !.severity = sv, !.event_type = ty,
         !.latitude = c[1], !.longitude = c[2]] :
       h \in Texts,
       sv \in {None, Some(-2), Some(1), Some(4), Some(9)},
       ty \in {None, Some("political")},
       c \in {<<None, None>>, <<Some(320000), Some(350000)>>},
       src \in {CNN, <<>>}}

\* The most times _enrich is applied to one record in the model.
MaxEnrich == 2

EnrichIdle ==
    /\ path = ""
    /\ given = Kwargs(<<>>, <<>>, 0)
    /\ ev = None
    /\ enrichCount = 0
    /\ returned = <<>>

EnrichFrame ==
    UNCHANGED <<idVars, dedupVars, batchVars, fetchVars,
               fanVars,
               geoVars,
               cycleVars,
               concVars>>

\* NewsEvent(**kw) is called and passes validation.
Build(p, kw) ==
    /\ ev = None
    /\ SeverityValid(NewsEvent(kw).severity)
    /\ path' = p
    /\ given' = kw
    /\ ev' = Some(NewsEvent(kw))
    /\ UNCHANGED <<enrichCount, returned, storeVars>>
    /\ EnrichFrame

\* LiveUAMapScraper._try_api, one item
TryApi(item) == Build("api", ApiKwargs(item))

\* parse of a markup scraper, one entry
Parse(hits) ==
    Build("markup", [Kwargs(Headline, CNN, 0) EXCEPT !.hits = hits])

\* RSSBaseScraper._entry_to_event
EntryToEvent(hits) ==
    Build("rss", [Kwargs(Headline, BBC, 0) EXCEPT !.hits = hits])

\* parse of a scraper that sets more fields itself
CustomParse(kw) == Build("custom", kw)

\* self._enrich(ev)
Enrich ==
    /\ ev # None
    /\ returned = <<>>
    /\ enrichCount < MaxEnrich
    /\ ev' = Some(IF path = "rss" THEN rss_enrich(ev[1], SourceOf(path))
                  ELSE _enrich(ev[1], SourceOf(path)))
    /\ enrichCount' = enrichCount + 1
    /\ UNCHANGED <<path, given, returned, storeVars>>
    /\ EnrichFrame

\* scrape returns the enriched records
Return ==
    /\ ev # None
    /\ enrichCount >= 1
    /\ returned = <<>>
    /\ returned' = <<ev[1]>>
    /\ UNCHANGED <<path, given, ev, enrichCount, storeVars>>
    /\ EnrichFrame

\* event_store.add_many(events), for the one record returned
Commit ==
    /\ returned # <<>>
    /\ op = "init"
    /\ AddBody(returned[1])
    /\ UNCHANGED enrichVars
    /\ EnrichFrame

EnrichNext ==
    \/ \E item \in ApiItems : TryApi(item)
    \/ \E hits \in Texts : Parse(hits)
    \/ \E hits \in Texts : EntryToEvent(hits)
    \/ \E kw \in CustomKwargs : CustomParse(kw)
    \/ Enrich
    \/ Return
    \/ Commit

(***************************************************************************)
(*                        The duplicate predicate                          *)
(***************************************************************************)

\* deduplicator.py: the thresholds.  Windows in minutes, similarities in
\* hundredths.
_CROSS_SOURCE_WINDOW_MIN == 30

_CROSS_SOURCE_SIM == 65

_SAME_SOURCE_WINDOW_MIN == 120

_SAME_SOURCE_SIM == 85

\* The length of the longest common prefix of a[i..ahi] and b[j..bhi].
RECURSIVE CommonPrefix(_, _, _, _, _, _)
CommonPrefix(a, b, i, j, ahi, bhi) ==
    IF i > ahi \/ j > bhi THEN 0
    ELSE IF a[i] # b[j] THEN 0
    ELSE 1 + CommonPrefix(a, b, i + 1, j + 1, ahi, bhi)

\* SequenceMatcher.find_longest_match(alo, ahi, blo, bhi), without junk: the
\* longest block common to a[alo..ahi] and b[blo..bhi]; of the longest ones
\* the one that starts earliest in a, and of those the one that starts
\* earliest in b.  <<i, j, k>>, with k = 0 when there is none.
find_longest_match(a, b, alo, ahi, blo, bhi) ==
    LET size == [i \in alo..ahi, j \in blo..bhi |->
                    CommonPrefix(a, b, i, j, ahi, bhi)]
        starts == (alo..ahi) \X (blo..bhi)
        Before(p, q) ==
            \/ size[p] > size[q]
            \/ size[p] = size[q] /\ p[1] < q[1]
            \/ size[p] = size[q] /\ p[1] = q[1] /\ p[2] <= q[2]
        first_best == CHOOSE p \in starts : \A q \in starts : Before(p, q)
    IN  IF starts = {} THEN <<alo, blo, 0>>
        ELSE <<first_best[1], first_best[2], size[first_best]>>

\* SequenceMatcher.get_matching_blocks: the total size of the blocks, found
\* by splitting around the longest match and matching both sides again.
RECURSIVE MatchedSize(_, _, _, _, _, _)
MatchedSize(a, b, alo, ahi, blo, bhi) ==
    IF alo > ahi \/ blo > bhi THEN 0
    ELSE LET m == find_longest_match(a, b, alo, ahi, blo, bhi)
         IN  IF m[3] = 0 THEN 0
             ELSE m[3]
                  + MatchedSize(a, b, alo, m[1] - 1, blo, m[2] - 1)
                  + MatchedSize(a, b, m[1] + m[3], ahi, m[2] + m[3], bhi)

\* SequenceMatcher(None, a, b).ratio() >= threshold / 100, with
\* ratio = 2.0 * matches / (len(a) + len(b)), and 1.0 for two empty strings.
\* (Titles are shorter than the 200 characters from which SequenceMatcher
\* starts to treat frequent characters as junk.)
RatioAtLeast(a, b, threshold) ==
    LET matches == MatchedSize(a, b, 1, Len(a), 1, Len(b))
        length  == Len(a) + Len(b)
    IN  IF length = 0 THEN 100 >= threshold
        ELSE 200 * matches >= threshold * length

\* deduplicator._similar
_similar(a, b, threshold) ==
    LET a_norm == Strip(Lower(a))
        b_norm == Strip(Lower(b))
    IN  IF a_norm = b_norm THEN TRUE
        ELSE RatioAtLeast(a_norm, b_norm, threshold)

AbsDiff(x, y) == IF x >= y THEN x - y ELSE y - x

\* A predicate with an exclusive time window.
IsDuplicateStrictWindow(event, existing) ==
    LET same_source == event.source_name = existing.source_name
        window    == IF same_source THEN _SAME_SOURCE_WINDOW_MIN
                     ELSE _CROSS_SOURCE_WINDOW_MIN
        threshold == IF same_source THEN _SAME_SOURCE_SIM
                     ELSE _CROSS_SOURCE_SIM
        time_close == AbsDiff(event.timestamp, existing.timestamp) < window
    IN  time_close /\ _similar(event.title, existing.title, threshold)

\* deduplicator._is_duplicate
_is_duplicate(event, existing) ==
    LET same_source == event.source_name = existing.source_name
        window    == IF same_source THEN _SAME_SOURCE_WINDOW_MIN
                     ELSE _CROSS_SOURCE_WINDOW_MIN
        threshold == IF same_source THEN _SAME_SOURCE_SIM
                     ELSE _CROSS_SOURCE_SIM
        time_close == AbsDiff(event.timestamp, existing.timestamp) <= window
    IN  time_close /\ _similar(event.title, existing.title, threshold)

Rep(c, n) == [i \in 1..n |-> c]

\* The titles the predicate is exercised with.  The first two have 17 of
\* their 20 characters in common (ratio 0.85), the third shares 16 with
\* them (0.8), the fourth 13 (0.65), the fifth 12 (0.6).
TitleStrike == Rep("a", 17) \o <<"x", "y", "z">>

TitleStrikeLate == Rep("a", 17) \o <<"p", "q", "r">>

TitleStrike16 == Rep("a", 16) \o <<"b", "c", "d", "e">>

TitleStrike13 == Rep("a", 13) \o <<"f", "g", "h", "i", "j", "k", "l">>

TitleStrike12 == Rep("a", 12) \o <<"m", "n", "o", "s", "t", "u", "v", "w">>

\* TitleStrikeLate in capitals, with whitespace around it.
TitleStrikeLoud == <<" ">> \o Rep("A", 17) \o <<"p", "q", "r", " ">>

TitleOther == <<"b", "c", "a", "b">>

DedupTitles ==
    {TitleStrike, TitleStrikeLate, TitleStrike16, TitleStrike13,
     TitleStrike12, TitleStrikeLoud, TitleOther}

\* The time of the stored record, and how far from it the other one is.
BaseTime == 200

TimeGaps == {-121, -120, -31, -30, 0, 29, 30, 31, 90, 120, 121}

DedupIdle ==
    /\ dEvent = NewsEvent(Kwargs(<<>>, <<>>, 0))
    /\ dExisting = NewsEvent(Kwargs(<<>>, <<>>, 0))
    /\ dCompared = FALSE
    /\ dResult = FALSE

\* Two records, built as the scrapers build them, not yet compared.
DedupStart ==
    /\ \E t1 \in DedupTitles, s1 \in Sources, gap \in TimeGaps :
          dEvent = NewsEvent(Kwargs(t1, s1, BaseTime + gap))
    /\ \E t2 \in DedupTitles, s2 \in Sources :
          dExisting = NewsEvent(Kwargs(t2, s2, BaseTime))
    /\ dCompared = FALSE
    /\ dResult = FALSE

DedupFrame ==
    UNCHANGED <<storeVars, idVars, enrichVars, batchVars, fetchVars,
               fanVars,
               geoVars,
               cycleVars,
               concVars>>

\* _is_duplicate(event, existing) is called.
Compare ==
    /\ ~dCompared
    /\ dCompared' = TRUE
    /\ dResult' = _is_duplicate(dEvent, dExisting)
    /\ UNCHANGED <<dEvent, dExisting>>
    /\ DedupFrame

DedupNext == Compare

(***************************************************************************)
(*            deduplicate and deduplicate_against_existing                 *)
(***************************************************************************)

\* The inner loop of deduplicate with a replacement on equal summary length.
RECURSIVE ScanKeptReplaceOnTie(_, _, _)
ScanKeptReplaceOnTie(kept, event, i) ==
    IF i > Len(kept) THEN Append(kept, event)
    ELSE IF _is_duplicate(event, kept[i])
         THEN IF Len(event.summary) >= Len(kept[i].summary)
              THEN [kept EXCEPT ![i] = event]
              ELSE kept
         ELSE ScanKeptReplaceOnTie(kept, event, i + 1)

\* deduplicate, the body of "for event in events": the scan of kept from
\* position i on, with its break, and the append when no duplicate was found.
RECURSIVE ScanKept(_, _, _)
ScanKept(kept, event, i) ==
    IF i > Len(kept) THEN Append(kept, event)
    ELSE IF _is_duplicate(event, kept[i])
         THEN IF Len(event.summary) > Len(kept[i].summary)
              THEN [kept EXCEPT ![i] = event]
              ELSE kept
         ELSE ScanKept(kept, event, i + 1)

\* deduplicate, the loop over the first n records of events
RECURSIVE DedupLoop(_, _)
DedupLoop(events, n) ==
    IF n = 0 THEN <<>>
    ELSE ScanKept(DedupLoop(events, n - 1), events[n], 1)

\* deduplicator.deduplicate
deduplicate(events) ==
    IF events = <<>> THEN <<>> ELSE DedupLoop(events, Len(events))

\* The inner loop of deduplicate_against_existing: is event a duplicate of
\* one of existing[i..]?
RECURSIVE DupOfAny(_, _, _)
DupOfAny(event, existing, i) ==
    IF i > Len(existing) THEN FALSE
    ELSE IF _is_duplicate(event, existing[i]) THEN TRUE
    ELSE DupOfAny(event, existing, i + 1)

\* A filter that compares with the newest stored record only.
RECURSIVE AgainstNewestOnly(_, _)
AgainstNewestOnly(incoming, existing) ==
    IF incoming = <<>> THEN <<>>
    ELSE LET event == Head(incoming)
             rest  == AgainstNewestOnly(Tail(incoming), existing)
         IN  IF existing # <<>> /\ _is_duplicate(event, existing[1])
             THEN rest
             ELSE <<event>> \o rest

\* deduplicator.deduplicate_against_existing
RECURSIVE deduplicate_against_existing(_, _)
deduplicate_against_existing(incoming, existing) ==
    IF incoming = <<>> THEN <<>>
    ELSE LET event == Head(incoming)
             rest  == deduplicate_against_existing(Tail(incoming), existing)
         IN  IF DupOfAny(event, existing, 1) THEN rest ELSE <<event>> \o rest

\* Short titles: TitleRaid and TitleRaidLoud are equal once normalised,
\* TitleRaidB is 0.75 similar to them, TitleTalks shares nothing with them.
TitleRaid == <<"a", "b", "c", "d">>

TitleRaidLoud == <<" ", "A", "B", "c", "d">>

TitleRaidB == <<"a", "b", "c", "e">>

TitleTalks == <<"x", "y", "z">>

\* A record as a scraper returns it: title, source, minute, summary length.
Report(t, src, ts, n) ==
    NewsEvent([Kwargs(t, src, ts) EXCEPT !.summary = Rep("s", n)])

\* The records the batches and the store contents are made of.
Reports ==
    {Report(TitleRaid, BBC, 0, 1),
     Report(TitleRaidLoud, BBC, 100, 2),
     Report(TitleRaidB, CNN, 25, 2),
     Report(TitleRaidB, BBC, 25, 1),
     Report(TitleRaid, CNN, 10, 1),
     Report(TitleRaid, BBC, 130, 0),
     Report(TitleTalks, CNN, 0, 0)}

\* The longest batch of the model.
MaxBatchLen == 3

SeqsUpTo(S, n) == UNION {[1..k -> S] : k \in 0..n}

\* What the store may hold when the refresh runs, newest first.
StoreContents ==
    {<<>>,
     <<Report(TitleRaid, BBC, 0, 1)>>,
     <<Report(TitleRaidLoud, BBC, 100, 2), Report(TitleTalks, CNN, 0, 0)>>,
     <<Report(TitleRaid, BBC, 130, 0), Report(TitleRaidB, CNN, 25, 2)>>}

BatchIdle ==
    /\ bBatch = <<>>
    /\ bExisting = <<>>
    /\ bStage = "idle"
    /\ bKept = <<>>
    /\ bNovel = <<>>

\* The scrapers' results are merged, the store holds what it holds.
BatchStart ==
    /\ bBatch \in SeqsUpTo(Reports, MaxBatchLen)
    /\ bExisting \in StoreContents
    /\ bStage = "start"
    /\ bKept = <<>>
    /\ bNovel = <<>>

BatchFrame ==
    UNCHANGED <<storeVars, idVars, enrichVars, dedupVars, fetchVars,
               fanVars,
               geoVars,
               cycleVars,
               concVars>>

\* _run_all_scrapers: all_events = deduplicate(all_events)
Deduplicate ==
    /\ bStage = "start"
    /\ bKept' = deduplicate(bBatch)
    /\ bStage' = "deduped"
    /\ UNCHANGED <<bBatch, bExisting, bNovel>>
    /\ BatchFrame

\* _run_all_scrapers: the second pass, against the store, when it is not
\* empty.
AgainstExisting ==
    /\ bStage = "deduped"
    /\ bNovel' = IF bExisting # <<>>
                 THEN deduplicate_against_existing(bKept, bExisting)
                 ELSE bKept
    /\ bStage' = "filtered"
    /\ UNCHANGED <<bBatch, bExisting, bKept>>
    /\ BatchFrame

BatchNext ==
    \/ Deduplicate
    \/ AgainstExisting

(***************************************************************************)
(*              scrape, _fetch and the response cache                      *)
(***************************************************************************)

\* settings.MAX_RETRIES
MAX_RETRIES == 2

\* base.py: _response_cache = TTLCache(ttl=55), in seconds
_ttl == 55

\* What a call returned, or that it raised an exception (a subclass of
\* Exception).
Ok(v) == [raised |-> FALSE, value |-> v]

Raised(v) == [raised |-> TRUE, value |-> v]

\* A body that lets its exceptions out.
ScrapeNoCatch(body) == body

\* try: ... except Exception: return [] (scrape of BaseScraper and of
\* RSSBaseScraper)
TryExcept(body) == IF body.raised THEN Ok(<<>>) ELSE body

\* [self._enrich(ev) for ev in events]
Enriched(events) == [i \in 1..Len(events) |-> <<events[i], "enriched">>]

\* A cache read that expires an entry when its age reaches the ttl.
CacheGetStrict(store, key, t) ==
    LET entry == store[key]
    IN  IF entry = None THEN [value |-> None, store |-> store]
        ELSE IF t - entry[1] >= _ttl
             THEN [value |-> None, store |-> [store EXCEPT ![key] = None]]
             ELSE [value |-> Some(entry[2]), store |-> store]

\* A cache read that answers nothing for an expired entry but leaves it in
\* the store.
CacheGetKeepExpired(store, key, t) ==
    LET entry == store[key]
    IN  IF entry = None THEN [value |-> None, store |-> store]
        ELSE IF t - entry[1] > _ttl
             THEN [value |-> None, store |-> store]
             ELSE [value |-> Some(entry[2]), store |-> store]

\* TTLCache.get at time t: the value, and the store afterwards
CacheGet(store, key, t) ==
    LET entry == store[key]
    IN  IF entry = None THEN [value |-> None, store |-> store]
        ELSE IF t - entry[1] > _ttl
             THEN [value |-> None, store |-> [store EXCEPT ![key] = None]]
             ELSE [value |-> Some(entry[2]), store |-> store]

\* TTLCache.set at time t
CacheSet(store, key, t, v) == [store EXCEPT ![key] = <<t, v>>]

\* A check that takes only 401 for a permanent rejection.
PermanentOnly401(status) == status = "401"

\* _fetch: status in (401, 403)
Permanent(status) == status \in {"401", "403"}

\* The scrapers of the model: a markup scraper, the API-first scraper with
\* its markup fallback, a syndication scraper; and their SOURCE_URL.
MarkupScrapers == {CNN, Liveuamap}

SOURCE_URL(scraper) ==
    CASE scraper = CNN       -> "https://edition.cnn.com/"
      [] scraper = Liveuamap -> "https://iran.liveuamap.com/"
      [] OTHER               -> "https://feeds.bbci.co.uk/"

Urls == {SOURCE_URL(x) : x \in MarkupScrapers}

\* What an HTTP attempt can come to: a response with status 200 and a body,
\* an HTTPError with a status ("0": without a response), another
\* RequestException, an exception of another class.
Bodies == {"", "<html>1</html>", "<html>2</html>"}

HttpStatuses == {"0", "401", "403", "404", "500", "503"}

NetErrors == {"ConnectionError", "Timeout"}

AttemptOutcomes ==
    [tag : {"ok"}, text : Bodies]
        \cup [tag : HttpStatuses \cup NetErrors \cup {"crash"}, text : {""}]

\* What parse(html), _try_api() and the entries of a feed can come to.
Items == {<<>>, <<"e1">>, <<"e1", "e2">>}

ParseOutcomes == {Raised(<<>>)} \cup {Ok(l) : l \in Items}

\* feedparser.parse: it raised; or the feed, with its bozo flag, its
\* entries that pass the filter, and whether converting one of them raises.
Feeds ==
    [crash : BOOLEAN, bozo : BOOLEAN, entries : Items, convertRaises : BOOLEAN]

\* BaseScraper.scrape after _fetch, inside the try
BaseScrapeBody(fetched, parsed, enrichRaises) ==
    IF fetched.raised THEN Raised(<<>>)
    ELSE IF fetched.value = None \/ fetched.value = Some("") THEN Ok(<<>>)
    ELSE IF parsed.raised THEN Raised(<<>>)
    ELSE IF parsed.value # <<>> /\ enrichRaises THEN Raised(<<>>)
    ELSE Ok(Enriched(parsed.value))

\* BaseScraper.scrape
BaseScrape(fetched, parsed, enrichRaises) ==
    TryExcept(BaseScrapeBody(fetched, parsed, enrichRaises))

\* The failure that ended it, "" for none.
BaseFailure(fetched, parsed, enrichRaises) ==
    IF fetched.raised \/ fetched.value = None THEN "fetch"
    ELSE IF fetched.value = Some("") THEN ""
    ELSE IF parsed.raised THEN "parse"
    ELSE IF parsed.value # <<>> /\ enrichRaises THEN "enrich"
    ELSE ""

\* RSSBaseScraper.scrape, inside the try
RssScrapeBody(feed) ==
    IF feed.crash THEN Raised(<<>>)
    ELSE IF feed.bozo /\ feed.entries = <<>> THEN Ok(<<>>)
    ELSE IF feed.entries # <<>> /\ feed.convertRaises THEN Raised(<<>>)
    ELSE Ok(Enriched(feed.entries))

\* RSSBaseScraper.scrape
RssScrape(feed) == TryExcept(RssScrapeBody(feed))

RssFailure(feed) ==
    IF feed.crash \/ (feed.bozo /\ feed.entries = <<>>) THEN "feed"
    ELSE IF feed.entries # <<>> /\ feed.convertRaises THEN "convert"
    ELSE ""

\* The clock advances by one of these numbers of seconds, at most MaxTicks
\* times.
ClockSteps == {1, _ttl - 1}

MaxTicks == 3

FetchIdle ==
    /\ fNow = 0
    /\ fTicks = 0
    /\ cache = [u \in Urls |-> None]
    /\ fPc = "idle"
    /\ fScraper = <<>>
    /\ fAttempt = 0
    /\ fCallAt = 0
    /\ fKnown = [u \in Urls |-> None]
    /\ fLog = <<>>
    /\ fSleeps = 0
    /\ fResult = Ok(None)
    /\ sFailure = ""
    /\ sOut = Ok(<<>>)

FetchFrame ==
    UNCHANGED <<storeVars, idVars, enrichVars, dedupVars, batchVars,
               fanVars,
               geoVars,
               cycleVars,
               concVars>>

\* Time passes.
Advance(d) ==
    /\ fTicks < MaxTicks
    /\ fNow' = fNow + d
    /\ fTicks' = fTicks + 1
    /\ UNCHANGED <<cache, fPc, fScraper, fAttempt, fCallAt, fKnown, fLog,
                   fSleeps, fResult, sFailure, sOut>>
    /\ FetchFrame

\* scrape calls _fetch: the cache is read; on a hit _fetch returns at once,
\* otherwise it enters its loop.
BeginFetch(scraper) ==
    LET got == CacheGet(cache, SOURCE_URL(scraper), fNow)
    IN  /\ fScraper' = scraper
        /\ cache' = got.store
        /\ fCallAt' = fNow
        /\ fLog' = <<>>
        /\ fSleeps' = 0
        /\ sFailure' = ""
        /\ sOut' = Ok(<<>>)
        /\ IF got.value # None
           THEN /\ fResult' = Ok(got.value)
                /\ fPc' = "fetched"
                /\ fAttempt' = 0
           ELSE /\ fResult' = Ok(None)
                /\ fPc' = "attempt"
                /\ fAttempt' = 1
        /\ UNCHANGED <<fNow, fTicks, fKnown>>

\* BaseScraper.scrape is called on the markup scraper.
ScrapeMarkup ==
    /\ fPc = "idle"
    /\ BeginFetch(CNN)
    /\ FetchFrame

\* One pass of _fetch's loop: the request, and what follows from its
\* outcome: return, break, or the sleep and the next pass or the end of
\* the loop.
Attempt(outcome) ==
    /\ fPc = "attempt"
    /\ fLog' = Append(fLog, outcome.tag)
    /\ IF outcome.tag = "ok"
       THEN /\ cache' = CacheSet(cache, SOURCE_URL(fScraper), fNow, outcome.text)
            /\ fKnown' = [fKnown EXCEPT
                             ![SOURCE_URL(fScraper)] = <<fNow, outcome.text>>]
            /\ fResult' = Ok(Some(outcome.text))
            /\ fPc' = "fetched"
            /\ UNCHANGED <<fAttempt, fSleeps>>
       ELSE IF outcome.tag = "crash"
       THEN /\ fResult' = Raised(None)
            /\ fPc' = "fetched"
            /\ UNCHANGED <<cache, fKnown, fAttempt, fSleeps>>
       ELSE IF outcome.tag \in HttpStatuses /\ Permanent(outcome.tag)
       THEN /\ fResult' = Ok(None)
            /\ fPc' = "fetched"
            /\ UNCHANGED <<cache, fKnown, fAttempt, fSleeps>>
       ELSE /\ fSleeps' = fSleeps + 1
            /\ IF fAttempt < MAX_RETRIES
               THEN /\ fAttempt' = fAttempt + 1
                    /\ UNCHANGED <<fPc, fResult>>
               ELSE /\ fResult' = Ok(None)
                    /\ fPc' = "fetched"
                    /\ UNCHANGED fAttempt
            /\ UNCHANGED <<cache, fKnown>>
    /\ UNCHANGED <<fNow, fTicks, fScraper, fCallAt, sFailure, sOut>>
    /\ FetchFrame

\* BaseScraper.scrape after _fetch: parse, enrich, return.
FinishScrape(parsed, enrichRaises) ==
    /\ fPc = "fetched"
    /\ sOut' = BaseScrape(fResult, parsed, enrichRaises)
    /\ sFailure' = BaseFailure(fResult, parsed, enrichRaises)
    /\ fPc' = "done"
    /\ UNCHANGED <<fNow, fTicks, cache, fScraper, fAttempt, fCallAt, fKnown,
                   fLog, fSleeps, fResult>>
    /\ FetchFrame

\* LiveUAMapScraper.scrape: the API first; with events from it, and their
\* enrichment done, that is the result; otherwise super().scrape().
ScrapeLive(api, enrichRaises) ==
    /\ fPc = "idle"
    /\ IF ~api.raised /\ api.value # <<>> /\ ~enrichRaises
       THEN /\ fScraper' = Liveuamap
            /\ sOut' = Ok(Enriched(api.value))
            /\ sFailure' = ""
            /\ fPc' = "done"
            /\ fLog' = <<>>
            /\ fSleeps' = 0
            /\ UNCHANGED <<fNow, fTicks, cache, fAttempt, fCallAt, fKnown,
                           fResult>>
       ELSE BeginFetch(Liveuamap)
    /\ FetchFrame

\* RSSBaseScraper.scrape
ScrapeRss(feed) ==
    /\ fPc = "idle"
    /\ fScraper' = BBC
    /\ sOut' = RssScrape(feed)
    /\ sFailure' = RssFailure(feed)
    /\ fPc' = "done"
    /\ fLog' = <<>>
    /\ fSleeps' = 0
    /\ UNCHANGED <<fNow, fTicks, cache, fAttempt, fCallAt, fKnown, fResult>>
    /\ FetchFrame

\* The next refresh: new scraper objects are called; the cache is the
\* module's and stays.
NextCycle ==
    /\ fPc = "done"
    /\ fPc' = "idle"
    /\ fScraper' = <<>>
    /\ fAttempt' = 0
    /\ fCallAt' = 0
    /\ fLog' = <<>>
    /\ fSleeps' = 0
    /\ fResult' = Ok(None)
    /\ sFailure' = ""
    /\ sOut' = Ok(<<>>)
    /\ UNCHANGED <<fNow, fTicks, cache, fKnown>>
    /\ FetchFrame

FetchNext ==
    \/ \E d \in ClockSteps : Advance(d)
    \/ ScrapeMarkup
    \/ \E outcome \in AttemptOutcomes : Attempt(outcome)
    \/ \E parsed \in ParseOutcomes, enrichRaises \in BOOLEAN :
          FinishScrape(parsed, enrichRaises)
    \/ \E api \in ParseOutcomes, enrichRaises \in BOOLEAN :
          ScrapeLive(api, enrichRaises)
    \/ \E feed \in Feeds : ScrapeRss(feed)
    \/ NextCycle

(***************************************************************************)
(*                 _run_all_scrapers: the fan-out                          *)
(***************************************************************************)

\* app.py: as_completed(futures, timeout=60), in seconds
AS_COMPLETED_TIMEOUT == 60

NPR == <<"N", "P", "R">>

\* The enabled scrapers, in the order of ALL_SCRAPERS: two syndication
\* scrapers and a markup scraper.
FanOrder == <<BBC, CNN, NPR>>

FanSources == Range(FanOrder)

\* The instants of the model, in seconds since as_completed was called.
Instants == <<0, 30, 60, 61, 90>>

\* The records of a scrape's result, marked with their source.
Tagged(source, out) ==
    [out EXCEPT !.value = [i \in 1..Len(out.value) |-> <<source, out.value[i]>>]]

\* Future.cancel: a future that is running or finished cannot be
\* cancelled.
cancel(future) ==
    IF future.state \in {"running", "finished"} THEN future
    ELSE [future EXCEPT !.state = "cancelled"]

\* The body of "for future in as_completed(...)" for the futures of queue,
\* in order: the result is merged, or the exception recorded.
RECURSIVE Collect(_, _, _)
Collect(queue, events, errs) ==
    IF queue = <<>> THEN [events |-> events, errors |-> errs]
    ELSE LET source == Head(queue)
             result == fut[source].result
         IN  IF result.raised
             THEN Collect(Tail(queue), events, Append(errs, <<source, "exc">>))
             ELSE Collect(Tail(queue), events \o result.value, errs)

\* The handler's loop over futures.items(): an entry for each future that
\* is not done.
RECURSIVE TimedOut(_)
TimedOut(order) ==
    IF order = <<>> THEN <<>>
    ELSE (IF fut[Head(order)].state = "running"
          THEN <<<<Head(order), "timed out">>>> ELSE <<>>)
         \o TimedOut(Tail(order))

FanIdle ==
    /\ gNow = 1
    /\ fut = [x \in FanSources |->
                 [state |-> "unsubmitted", result |-> Ok(<<>>), doneAt |-> 0]]
    /\ gFetchFailed = [x \in FanSources |-> FALSE]
    /\ gPc = "idle"
    /\ pending = {}
    /\ finishedQ = <<>>
    /\ all_events = <<>>
    /\ errors = <<>>
    /\ gAsked = {}
    /\ gRunningAtExit = {}

\* Every scrape is submitted and, the pool having a worker for each, is
\* running; as_completed has been called.
FanStart ==
    /\ gNow = 1
    /\ fut = [x \in FanSources |->
                 [state |-> "running", result |-> Ok(<<>>), doneAt |-> 0]]
    /\ gFetchFailed = [x \in FanSources |-> FALSE]
    /\ gPc = "check"
    /\ pending = FanSources
    /\ finishedQ = <<>>
    /\ all_events = <<>>
    /\ errors = <<>>
    /\ gAsked = {}
    /\ gRunningAtExit = {}

FanFrame ==
    UNCHANGED <<storeVars, idVars, enrichVars, dedupVars, batchVars,
               fetchVars,
               geoVars,
               cycleVars,
               concVars>>

\* Time passes.
FanTick ==
    /\ gPc # "returned"
    /\ gNow < Len(Instants)
    /\ gNow' = gNow + 1
    /\ UNCHANGED <<fut, gFetchFailed, gPc, pending, finishedQ, all_events,
                   errors, gAsked, gRunningAtExit>>
    /\ FanFrame

\* A worker's scrape returns: the future is finished and the waiter of
\* as_completed is told.
Finished(source, out, failed) ==
    /\ fut[source].state = "running"
    /\ fut' = [fut EXCEPT ![source] =
                  [state |-> "finished", result |-> Tagged(source, out),
                   doneAt |-> Instants[gNow]]]
    /\ gFetchFailed' = [gFetchFailed EXCEPT ![source] = failed]
    /\ finishedQ' = IF gPc \in {"check", "wait"} THEN Append(finishedQ, source)
                    ELSE finishedQ
    /\ UNCHANGED <<gNow, gPc, pending, all_events, errors, gAsked,
                   gRunningAtExit>>
    /\ FanFrame

\* The markup scraper's scrape returns.
FinishMarkup(fetched, parsed) ==
    Finished(CNN, BaseScrape(fetched, parsed, FALSE), fetched.value = None)

\* A syndication scraper's scrape returns.
FinishRss(source, feed) ==
    Finished(source, RssScrape(feed), RssFailure(feed) = "feed")

\* as_completed, the head of its loop: no future pending ends it; past the
\* deadline it raises TimeoutError; otherwise it waits.
Check ==
    /\ gPc = "check"
    /\ IF pending = {}
       THEN gPc' = "exit"
       ELSE IF AS_COMPLETED_TIMEOUT - Instants[gNow] < 0
            THEN gPc' = "timeout"
            ELSE gPc' = "wait"
    /\ UNCHANGED <<gNow, fut, gFetchFailed, pending, finishedQ, all_events,
                   errors, gAsked, gRunningAtExit>>
    /\ FanFrame

\* as_completed's wait is over (a future finished, or the deadline came):
\* the finished futures are taken and yielded, and the loop body merges the
\* result of each.
Harvest ==
    /\ gPc = "wait"
    /\ finishedQ # <<>> \/ Instants[gNow] >= AS_COMPLETED_TIMEOUT
    /\ LET got == Collect(finishedQ, all_events, errors)
       IN  /\ all_events' = got.events
           /\ errors' = got.errors
    /\ pending' = pending \ Range(finishedQ)
    /\ finishedQ' = <<>>
    /\ gPc' = "check"
    /\ UNCHANGED <<gNow, fut, gFetchFailed, gAsked, gRunningAtExit>>
    /\ FanFrame

\* except TimeoutError: cancel() and an error entry for each future that
\* is not done.
Handler ==
    /\ gPc = "timeout"
    /\ gAsked' = {x \in FanSources : fut[x].state = "running"}
    /\ gRunningAtExit' = {x \in FanSources : fut[x].state = "running"}
    /\ fut' = [x \in FanSources |->
                  IF fut[x].state = "running" THEN cancel(fut[x]) ELSE fut[x]]
    /\ errors' = errors \o TimedOut(FanOrder)
    /\ gPc' = "exit"
    /\ UNCHANGED <<gNow, gFetchFailed, pending, finishedQ, all_events>>
    /\ FanFrame

\* The with block is left: ThreadPoolExecutor.__exit__ is shutdown(wait=True),
\* which joins every worker; then the dedup passes run and the function
\* returns.
JoinAndReturn ==
    /\ gPc = "exit"
    /\ \A x \in FanSources : fut[x].state # "running"
    /\ gPc' = "returned"
    /\ UNCHANGED <<gNow, fut, gFetchFailed, pending, finishedQ, all_events,
                   errors, gAsked, gRunningAtExit>>
    /\ FanFrame

FanNext ==
    \/ FanTick
    \/ \E fetched \in {Ok(None), Ok(Some("<html>1</html>"))},
          parsed \in {Ok(<<"e1">>), Ok(<<"e1", "e2">>)} :
          FinishMarkup(fetched, parsed)
    \/ \E source \in {BBC, NPR},
          feed \in [crash : {FALSE}, bozo : BOOLEAN,
                    entries : {<<>>, <<"e1">>}, convertRaises : {FALSE}] :
          FinishRss(source, feed)
    \/ Check
    \/ Harvest
    \/ Handler
    \/ JoinAndReturn

(***************************************************************************)
(*                    extract_locations: the gazetteer                     *)
(***************************************************************************)

\* config.locations.LOCATIONS, in the order of the dict: the entries the
\* model keeps are the names that contain one another, or overlap, and a
\* plain one.  Coordinates in units of 0.0001 degree.
LOCATIONS ==
    <<
     [name |-> <<"k", "e", "r", "m", "a", "n", "s", "h", "a", "h">>,
       lat |-> 343142, lon |-> 470650],
     [name |-> <<"k", "e", "r", "m", "a", "n">>,
       lat |-> 302839, lon |-> 570834],
     [name |-> <<"k", "u", "w", "a", "i", "t">>,
       lat |-> 293759, lon |-> 479774],
     [name |-> <<"k", "u", "w", "a", "i", "t", " ", "c", "i", "t", "y">>,
       lat |-> 293759, lon |-> 479774],
     [name |-> <<"o", "m", "a", "n">>,
       lat |-> 235880, lon |-> 583829],
     [name |-> <<"p", "e", "r", "s", "i", "a", "n", " ", "g", "u", "l",
               "f">>,
       lat |-> 260000, lon |-> 520000],
     [name |-> <<"g", "u", "l", "f", " ", "o", "f", " ", "o", "m", "a",
               "n">>,
       lat |-> 245000, lon |-> 585000]>>

\* LOCATIONS.get(key)
LocationsGet(key) ==
    IF \E i \in 1..Len(LOCATIONS) : LOCATIONS[i].name = key
    THEN LET e == LOCATIONS[CHOOSE i \in 1..Len(LOCATIONS) :
                                LOCATIONS[i].name = key]
         IN  Some(<<e.lat, e.lon>>)
    ELSE None

\* One step of sorted(..., key=len, reverse=True): the sort is stable, a
\* name goes after every name that is not shorter.
InsertByLen(sorted, n) ==
    LET c == Cardinality({i \in 1..Len(sorted) : Len(sorted[i]) >= Len(n)})
    IN  SubSeq(sorted, 1, c) \o <<n>> \o SubSeq(sorted, c + 1, Len(sorted))

RECURSIVE SortByLen(_)
SortByLen(names) ==
    IF names = <<>> THEN <<>>
    ELSE InsertByLen(SortByLen(SubSeq(names, 1, Len(names) - 1)),
                     names[Len(names)])

\* geocoder._SORTED_NAMES
_SORTED_NAMES == SortByLen([i \in 1..Len(LOCATIONS) |-> LOCATIONS[i].name])

\* \w of the pattern
IsWordChar(c) ==
    c \in Range(Lowers) \cup Range(Uppers) \cup {"1"}

\* \b before position p of text: exactly one of the characters at p - 1
\* and at p is a word character (the ends of the text count as none).
WordBoundary(text, p) ==
    LET before == p - 1 \in 1..Len(text) /\ IsWordChar(text[p - 1])
        after  == p \in 1..Len(text) /\ IsWordChar(text[p])
    IN  before # after

\* \b(name)\b with re.IGNORECASE matches at position p of text.
NameAt(text, p, name) ==
    /\ p + Len(name) - 1 <= Len(text)
    /\ Lower(SubSeq(text, p, p + Len(name) - 1)) = name
    /\ WordBoundary(text, p)
    /\ WordBoundary(text, p + Len(name))

\* _PATTERN at position p: the alternatives are tried in the order of
\* _SORTED_NAMES; the match is the matched text (match.group(0)), or None.
PatternAt(text, p) ==
    LET found == {i \in 1..Len(_SORTED_NAMES) :
                     NameAt(text, p, _SORTED_NAMES[i])}
    IN  IF found = {} THEN None
        ELSE LET i == CHOOSE i \in found : \A j \in found : i <= j
             IN  Some(SubSeq(text, p, p + Len(_SORTED_NAMES[i]) - 1))

\* _PATTERN.finditer(text) from position p: the matches from left to right,
\* the search going on after the end of each match.
RECURSIVE finditer(_, _)
finditer(text, p) ==
    IF p > Len(text) THEN <<>>
    ELSE LET m == PatternAt(text, p)
         IN  IF m = None THEN finditer(text, p + 1)
             ELSE <<m[1]>> \o finditer(text, p + Len(m[1]))

\* str.title: the first letter of each run of letters in upper case, the
\* others in lower case.
Title(str) ==
    [i \in 1..Len(str) |->
        IF i = 1 \/ str[i - 1] \notin Range(Lowers) \cup Range(Uppers)
        THEN UpperChar(str[i]) ELSE LowerChar(str[i])]

\* The loop of extract_locations over the first n matches: seen and results.
RECURSIVE ExtractLoop(_, _)
ExtractLoop(matches, n) ==
    IF n = 0 THEN [seen |-> {}, results |-> <<>>]
    ELSE LET prev  == ExtractLoop(matches, n - 1)
             key   == Strip(Lower(matches[n]))
             coord == LocationsGet(key)
         IN  IF key \in prev.seen THEN prev
             ELSE [seen    |-> prev.seen \cup {key},
                   results |-> IF coord # None
                               THEN Append(prev.results,
                                           <<Title(key), coord[1][1],
                                             coord[1][2]>>)
                               ELSE prev.results]

\* geocoder.extract_locations
extract_locations(text) ==
    LET matches == finditer(text, 1)
    IN  ExtractLoop(matches, Len(matches)).results

\* geocoder.extract_primary_location, on the text itself
PrimaryLocation(text) ==
    LET locations == extract_locations(text)
    IN  IF locations # <<>> THEN Some(locations[1]) ELSE None

\* The texts: up to MaxPhrases of these phrases, joined by single spaces.
GeoPhrases ==
    {
<<"P", "e", "r", "s", "i", "a", "n">>,
     <<"G", "u", "l", "f">>,
     <<"o", "f", " ", "O", "m", "a", "n">>,
     <<"O", "m", "a", "n">>,
     <<"K", "u", "w", "a", "i", "t">>,
     <<"C", "i", "t", "y">>,
     <<"K", "E", "R", "M", "A", "N">>,
     <<"K", "e", "r", "m", "a", "n", "s", "h", "a", "h", ",">>}

MaxPhrases == 3

RECURSIVE JoinPhrases(_)
JoinPhrases(ps) ==
    IF ps = <<>> THEN <<>>
    ELSE IF Len(ps) = 1 THEN ps[1]
    ELSE ps[1] \o <<" ">> \o JoinPhrases(Tail(ps))

GeoTexts == {JoinPhrases(ps) : ps \in SeqsUpTo(GeoPhrases, MaxPhrases)}

GeoIdle ==
    /\ geoText = <<>>
    /\ geoDone = FALSE
    /\ geoLocations = <<>>
    /\ geoPrimary = None

\* A text is about to be searched.
GeoStart ==
    /\ geoText \in GeoTexts
    /\ geoDone = FALSE
    /\ geoLocations = <<>>
    /\ geoPrimary = None

GeoFrame ==
    UNCHANGED <<storeVars, idVars, enrichVars, dedupVars, batchVars,
               fetchVars, fanVars,
               cycleVars,
               concVars>>

\* extract_locations(text) and extract_primary_location(text)
Locate ==
    /\ ~geoDone
    /\ geoDone' = TRUE
    /\ geoLocations' = extract_locations(geoText)
    /\ geoPrimary' = PrimaryLocation(geoText)
    /\ UNCHANGED geoText
    /\ GeoFrame

GeoNext == Locate

(***************************************************************************)
(*          _do_refresh: scrape, both dedup passes, add_many               *)
(***************************************************************************)

\* The time a source gives with an entry: kind is "missing" (no time at
\* all), "zoned" (a time with a zone or an offset), "unzoned" (a time
\* without), "unparseable" (text that is no time).
RawTime(kind, minute) == [kind |-> kind, minute |-> minute]

\* RSSBaseScraper._parse_timestamp: dateutil's parse returns an aware
\* datetime for a text with a zone and a naive one for a text without; it
\* raises ValueError for other text, and then, as for an entry without a
\* time, the result is datetime.now(timezone.utc).
_parse_timestamp(raw, utcnow) ==
    IF raw.kind = "zoned"
    THEN [minute |-> raw.minute, tzinfo |-> Some("UTC")]
    ELSE IF raw.kind = "unzoned"
    THEN [minute |-> raw.minute, tzinfo |-> None]
    ELSE [minute |-> utcnow, tzinfo |-> Some("UTC")]

\* CNNScraper.parse, the timestamp: datetime.now(timezone.utc) unless the
\* entry has a <time datetime="..."> that datetime.fromisoformat accepts
\* ("Z" is replaced by "+00:00" first); a text without offset parses to a
\* naive datetime.
ParseTimeElement(raw, utcnow) ==
    IF raw.kind = "zoned"
    THEN [minute |-> raw.minute, tzinfo |-> Some("UTC")]
    ELSE IF raw.kind = "unzoned"
    THEN [minute |-> raw.minute, tzinfo |-> None]
    ELSE [minute |-> utcnow, tzinfo |-> Some("UTC")]

\* The record a scraper builds from an entry: title, raw time, length of the
\* summary.  pydantic's datetime field takes a naive datetime as it is.
EventOf(entry, utcnow) ==
    LET ts == IF entry.source = CNN
              THEN ParseTimeElement(entry.raw, utcnow)
              ELSE _parse_timestamp(entry.raw, utcnow)
    IN  NewsEvent([Kwargs(entry.title, entry.source, ts.minute) EXCEPT
                      !.summary = Rep("s", entry.n),
                      !.tzinfo  = ts.tzinfo])

\* a - b and a < b on datetimes raise TypeError when exactly one of the two
\* is naive.
Mixed(a, b) == (a.tzinfo = None) # (b.tzinfo = None)

\* The scan of a list by _is_duplicate(event, .) raises: the first record
\* of the list that event cannot be subtracted from is reached, no earlier
\* one being a duplicate (the scan would have stopped there).
ScanRaises(list, event) ==
    \E i \in 1..Len(list) :
        /\ Mixed(event, list[i])
        /\ \A j \in 1..(i - 1) :
               ~Mixed(event, list[j]) /\ ~_is_duplicate(event, list[j])

\* deduplicate(events) raises TypeError
DedupRaises(events) ==
    \E n \in 1..Len(events) :
        ScanRaises(DedupLoop(events, n - 1), events[n])

\* deduplicate_against_existing(incoming, existing) raises TypeError
AgainstRaises(incoming, existing) ==
    \E n \in 1..Len(incoming) : ScanRaises(existing, incoming[n])

\* A sort by timestamp raises TypeError: a sort of a list compares, directly
\* or through others, every element with every other, so it compares a
\* naive timestamp with an aware one when the list holds both.
SortRaises(evs) ==
    \E i \in 1..Len(evs) : \E j \in 1..Len(evs) : Mixed(evs[i], evs[j])

\* add(event) raises: the record is stored, then _trim sorts.
AddRaises(evs, max, event) ==
    /\ ~HasId(evs, event.id)
    /\ Len(evs) + 1 > max
    /\ SortRaises(Append(evs, event))

\* add_many(batch) on a store that holds evs: its result, or the TypeError
\* of the first add that raises, the store holding what was stored by then.
RECURSIVE AddManyOutcome(_, _, _, _)
AddManyOutcome(evs, max, batch, count) ==
    IF batch = <<>> THEN [raised |-> FALSE, events |-> evs, added |-> count]
    ELSE IF AddRaises(evs, max, Head(batch))
    THEN [raised |-> TRUE, events |-> Append(evs, Head(batch)),
          added |-> count]
    ELSE LET r == add(evs, max, Head(batch))
         IN  AddManyOutcome(r.events, max, Tail(batch),
                            IF r.ret THEN count + 1 ELSE count)

\* _run_all_scrapers after the fan-out, on the merged all_events: the list
\* it returns, or the TypeError it raises.
RunAllScrapers(evs, merged) ==
    IF DedupRaises(merged) THEN Raised(<<>>)
    ELSE LET kept == deduplicate(merged)
         IN  IF SortRaises(evs) THEN Raised(<<>>)
             ELSE LET existing == get_all(evs, FALSE).list
                  IN  IF existing = <<>> THEN Ok(kept)
                      ELSE IF AgainstRaises(kept, existing)
                      THEN Raised(<<>>)
                      ELSE Ok(deduplicate_against_existing(kept, existing))

\* _do_refresh: what becomes of the store, the count of new records, and
\* whether an exception left the function.
_do_refresh(evs, max, merged) ==
    LET events == RunAllScrapers(evs, merged)
    IN  IF events.raised
        THEN [raised |-> TRUE, events |-> evs, added |-> 0]
        ELSE AddManyOutcome(evs, max, events.value, 0)

\* The entries the sources publish in the model.
FeedEntries ==
    {[source |-> BBC, title |-> TitleRaid, raw |-> RawTime("zoned", 0),
      n |-> 1],
     [source |-> CNN, title |-> TitleRaid, raw |-> RawTime("zoned", 50),
      n |-> 0],
     [source |-> BBC, title |-> TitleRaidLoud, raw |-> RawTime("zoned", 25),
      n |-> 2],
     [source |-> BBC, title |-> TitleRaidB, raw |-> RawTime("unzoned", 10),
      n |-> 1],
     [source |-> CNN, title |-> TitleRaidB, raw |-> RawTime("unzoned", 25),
      n |-> 2],
     [source |-> CNN, title |-> TitleTalks, raw |-> RawTime("missing", 0),
      n |-> 0],
     [source |-> BBC, title |-> TitleTalks,
      raw |-> RawTime("unparseable", 0), n |-> 0]}

\* The capacity of the store, the number of refresh cycles and the minute
\* of the first one, in the model.
CycleCap == 3

MaxCycles == 2

FirstMinute == 60

CycleIdle ==
    /\ rNow = FirstMinute
    /\ event_store = <<>>
    /\ rPc = "idle"
    /\ rMerged = <<>>
    /\ rOutcome = [raised |-> FALSE, added |-> 0]
    /\ rCycles = 0

CycleFrame ==
    UNCHANGED <<storeVars, idVars, enrichVars, dedupVars, batchVars,
               fetchVars, fanVars, geoVars,
               concVars>>

\* The fan-out of a refresh: the scrapers build their records from the
\* entries of their sources, the results are merged.
Scrape(entries) ==
    /\ rPc = "idle"
    /\ rCycles < MaxCycles
    /\ rMerged' = [i \in 1..Len(entries) |-> EventOf(entries[i], rNow)]
    /\ rPc' = "merged"
    /\ UNCHANGED <<rNow, event_store, rOutcome, rCycles>>
    /\ CycleFrame

\* The rest of _do_refresh: both dedup passes and add_many.  The next
\* refresh is a minute later.
Refresh ==
    /\ rPc = "merged"
    /\ LET r == _do_refresh(event_store, CycleCap, rMerged)
       IN  /\ event_store' = r.events
           /\ rOutcome' = [raised |-> r.raised, added |-> r.added]
    /\ rPc' = "idle"
    /\ rCycles' = rCycles + 1
    /\ rNow' = rNow + 1
    /\ UNCHANGED rMerged
    /\ CycleFrame

CycleNext ==
    \/ \E entries \in SeqsUpTo(FeedEntries, MaxBatchLen) : Scrape(entries)
    \/ Refresh

(***************************************************************************)
(*            EventStore called from two threads at once                   *)
(***************************************************************************)

\* The class takes no lock: a thread may be suspended between any two
\* statements of add and _trim, and between the steps of the statements
\* that call back into Python (the key function of sorted).  A thread is a
\* record: its call, where it is in it (pc), the index of the record of
\* the batch being added, the count of add_many, the list of ids _trim
\* works on, and what the call returned (None while it runs).
Threads == {1, 2}

AddCall(event) == [op |-> "add", batch |-> <<event>>, flag |-> FALSE]

AddManyCall(batch) == [op |-> "add_many", batch |-> batch, flag |-> FALSE]

GetAllCall(flag) == [op |-> "get_all", batch |-> <<>>, flag |-> flag]

NewThread(call) ==
    [call |-> call,
     pc |-> IF call.op = "get_all" THEN "list"
            ELSE IF call.batch = <<>> THEN "done" ELSE "check",
     idx |-> 1, added |-> 0, ids |-> <<>>,
     ret |-> IF call.op = "add_many" /\ call.batch = <<>> THEN Some(0)
             ELSE None]

\* The record the thread's add is working on.
Current(th) == th.call.batch[th.idx]

\* add returns ret: the call is over, or add_many's loop goes on.
AfterAdd(th, ret) ==
    IF th.call.op = "add"
    THEN [th EXCEPT !.pc = "done", !.ret = Some(ret), !.ids = <<>>]
    ELSE LET count == IF ret THEN th.added + 1 ELSE th.added
         IN  IF th.idx = Len(th.call.batch)
             THEN [th EXCEPT !.pc = "done", !.ret = Some(count),
                             !.added = count, !.ids = <<>>]
             ELSE [th EXCEPT !.pc = "check", !.idx = th.idx + 1,
                             !.added = count, !.ids = <<>>]

\* self._events[event.id] = event: a new key goes last, a present key keeps
\* its place and gets the new value.
DictSet(evs, event) ==
    IF HasId(evs, event.id)
    THEN [i \in 1..Len(evs) |-> IF evs[i].id = event.id THEN event ELSE evs[i]]
    ELSE Append(evs, event)

\* seq[:n] of Python: a negative n counts from the end.
SliceTo(seq, n) ==
    IF n >= Len(seq) THEN seq
    ELSE IF n >= 0 THEN SubSeq(seq, 1, n)
    ELSE IF Len(seq) + n > 0 THEN SubSeq(seq, 1, Len(seq) + n)
    ELSE <<>>

\* The ids of ids in the order of sorted(..., key=timestamp), the
\* timestamps looked up in evs.
SortedIds(ids, evs) ==
    LET rec(id) == evs[CHOOSE i \in 1..Len(evs) : evs[i].id = id]
        sorted  == SortAsc([i \in 1..Len(ids) |-> rec(ids[i])])
    IN  [i \in 1..Len(sorted) |-> sorted[i].id]

\* What the store holds and what the two calls are, before they start.
ConcContents == {<<>>, <<CleanEvent(3)>>, <<CleanEvent(3), CleanEvent(4)>>}

ConcWrites ==
    {AddCall(CleanEvent(1)), AddCall(CleanEvent(5)), AddCall(RefetchedEvent),
     AddManyCall(<<CleanEvent(5), CleanEvent(6)>>)}

ConcCalls == ConcWrites \cup {GetAllCall(FALSE)}

ConcIdle ==
    /\ started = <<>>
    /\ threads = [t \in Threads |-> NewThread(AddManyCall(<<>>))]

\* A store with some contents; thread 1 is about to add, thread 2 to add or
\* to read.
ConcStart ==
    /\ _max_events \in 1..MaxCap
    /\ _events \in {c \in ConcContents : Len(c) <= _max_events}
    /\ op = "init"
    /\ arg = NoEvent
    /\ addRet = FALSE
    /\ added = 0
    /\ addLog = <<>>
    /\ with_location_only = FALSE
    /\ listing = <<>>
    /\ listingAliased = FALSE
    /\ distinctRun = TRUE
    /\ inserted = {}
    /\ started = _events
    /\ \E c1 \in ConcWrites : \E c2 \in ConcCalls :
           threads = [t \in Threads |->
                         IF t = 1 THEN NewThread(c1) ELSE NewThread(c2)]

ConcFrame ==
    UNCHANGED <<idVars, enrichVars, dedupVars, batchVars, fetchVars, fanVars,
               geoVars, cycleVars>>

\* A step of thread t: its record becomes th, the dict becomes evs.
ThreadStep(t, th, evs) ==
    /\ threads' = [threads EXCEPT ![t] = th]
    /\ _events' = evs
    /\ UNCHANGED <<_max_events, op, arg, addRet, added, addLog,
                   with_location_only, listing, listingAliased, distinctRun,
                   inserted, started>>
    /\ ConcFrame

\* add: if event.id in self._events: return False
CheckId(t) ==
    LET th == threads[t]
    IN  /\ th.pc = "check"
        /\ ThreadStep(t, IF HasId(_events, Current(th).id)
                         THEN AfterAdd(th, FALSE)
                         ELSE [th EXCEPT !.pc = "insert"],
                      _events)

\* add: self._events[event.id] = event
Insert(t) ==
    LET th == threads[t]
    IN  /\ th.pc = "insert"
        /\ ThreadStep(t, [th EXCEPT !.pc = "len"], DictSet(_events, Current(th)))

\* _trim: if len(self._events) > self._max_events; otherwise add returns
\* True.
TrimLen(t) ==
    LET th == threads[t]
    IN  /\ th.pc = "len"
        /\ ThreadStep(t, IF Len(_events) > _max_events
                         THEN [th EXCEPT !.pc = "keys"]
                         ELSE AfterAdd(th, TRUE),
                      _events)

\* _trim: sorted(self._events, ...) first makes a list of the keys
TakeKeys(t) ==
    LET th == threads[t]
    IN  /\ th.pc = "keys"
        /\ ThreadStep(t, [th EXCEPT !.pc = "sort",
                             !.ids = [i \in 1..Len(_events) |-> _events[i].id]],
                      _events)

\* _trim: sorted then calls the key function on each key, which looks the
\* key up in the dict: KeyError if the key is gone.
SortKeys(t) ==
    LET th == threads[t]
    IN  /\ th.pc = "sort"
        /\ ThreadStep(t, IF \A i \in 1..Len(th.ids) : HasId(_events, th.ids[i])
                         THEN [th EXCEPT !.pc = "slice",
                                  !.ids = SortedIds(th.ids, _events)]
                         ELSE [th EXCEPT !.pc = "raised"],
                      _events)

\* _trim: sorted_ids[: len(self._events) - self._max_events]; with nothing
\* to delete add returns True.
TakeSlice(t) ==
    LET th     == threads[t]
        doomed == SliceTo(th.ids, Len(_events) - _max_events)
    IN  /\ th.pc = "slice"
        /\ ThreadStep(t, IF doomed = <<>> THEN AfterAdd(th, TRUE)
                         ELSE [th EXCEPT !.pc = "del", !.ids = doomed],
                      _events)

\* _trim: del self._events[eid]: KeyError if the key is gone; after the
\* last one add returns True.
Delete(t) ==
    LET th  == threads[t]
        eid == Head(th.ids)
    IN  /\ th.pc = "del"
        /\ IF ~HasId(_events, eid)
           THEN ThreadStep(t, [th EXCEPT !.pc = "raised"], _events)
           ELSE ThreadStep(t,
                    IF Tail(th.ids) = <<>> THEN AfterAdd(th, TRUE)
                    ELSE [th EXCEPT !.ids = Tail(th.ids)],
                    SelectSeq(_events, LAMBDA e : e.id # eid))

\* get_all: list(self._events.values()) copies the values in one step; the
\* rest works on the copy.
ListValues(t) ==
    LET th == threads[t]
    IN  /\ th.pc = "list"
        /\ ThreadStep(t, [th EXCEPT !.pc = "done",
                             !.ret = Some(get_all(_events, th.call.flag).list)],
                      _events)

ConcNext ==
    \E t \in Threads :
        \/ CheckId(t)
        \/ Insert(t)
        \/ TrimLen(t)
        \/ TakeKeys(t)
        \/ SortKeys(t)
        \/ TakeSlice(t)
        \/ Delete(t)
        \/ ListValues(t)

(***************************************************************************)
(*                          The specifications                             *)
(***************************************************************************)

StoreIdle ==
    /\ _max_events = 1
    /\ _events = <<>>
    /\ op = "init"
    /\ arg = NoEvent
    /\ addRet = FALSE
    /\ added = 0
    /\ addLog = <<>>
    /\ with_location_only = FALSE
    /\ listing = <<>>
    /\ listingAliased = FALSE
    /\ distinctRun = TRUE
    /\ inserted = {}

\* EventStore.__init__, the other machines idle
StoreInit == StoreStart /\ IdIdle /\ EnrichIdle /\ DedupIdle /\ BatchIdle
                /\ FetchIdle /\ FanIdle
                /\ GeoIdle
                /\ CycleIdle
                /\ ConcIdle

SpecStore == StoreInit /\ [][StoreNext]_vars

\* A headline to build records from, the other machines idle
IdInit == IdStart /\ StoreIdle /\ EnrichIdle /\ DedupIdle /\ BatchIdle
                /\ FetchIdle /\ FanIdle
                /\ GeoIdle
                /\ CycleIdle
                /\ ConcIdle

SpecId == IdInit /\ [][IdNext]_vars

\* A scraper about to build a record, the store empty
EnrichInit == EnrichIdle /\ StoreIdle /\ IdIdle /\ DedupIdle /\ BatchIdle
                /\ FetchIdle /\ FanIdle
                /\ GeoIdle
                /\ CycleIdle
                /\ ConcIdle

SpecEnrich == EnrichInit /\ [][EnrichNext]_vars

\* A pair drawn, not yet compared; the other machines idle.
DedupInit ==
    /\ DedupStart /\ StoreIdle /\ IdIdle /\ EnrichIdle /\ BatchIdle
    /\ FetchIdle /\ FanIdle
                /\ GeoIdle
                /\ CycleIdle
                /\ ConcIdle

SpecDedup == DedupInit /\ [][DedupNext]_vars

\* A merged batch and the store's contents; the other machines idle.
BatchInit ==
    /\ BatchStart /\ StoreIdle /\ IdIdle /\ EnrichIdle /\ DedupIdle
    /\ FetchIdle /\ FanIdle
                /\ GeoIdle
                /\ CycleIdle
                /\ ConcIdle

SpecBatch == BatchInit /\ [][BatchNext]_vars

\* No scrape has run, the cache is empty; the other machines idle.
FetchInit ==
    /\ FetchIdle /\ StoreIdle /\ IdIdle /\ EnrichIdle /\ DedupIdle
    /\ BatchIdle /\ FanIdle
                /\ GeoIdle
                /\ CycleIdle
                /\ ConcIdle

SpecFetch == FetchInit /\ [][FetchNext]_vars

\* The scrapes are running, as_completed was just called; the other
\* machines idle.
FanInit ==
    /\ FanStart /\ StoreIdle /\ IdIdle /\ EnrichIdle /\ DedupIdle
    /\ BatchIdle /\ FetchIdle
                /\ GeoIdle
                /\ CycleIdle
                /\ ConcIdle

SpecFan == FanInit /\ [][FanNext]_vars

\* A text to search; the other machines idle.
GeoInit ==
    /\ GeoStart /\ StoreIdle /\ IdIdle /\ EnrichIdle /\ DedupIdle
    /\ BatchIdle /\ FetchIdle /\ FanIdle
                /\ CycleIdle
                /\ ConcIdle

SpecGeo == GeoInit /\ [][GeoNext]_vars

\* Before the first refresh, the store empty; the other machines idle.
CycleInit ==
    /\ CycleIdle /\ StoreIdle /\ IdIdle /\ EnrichIdle /\ DedupIdle
    /\ BatchIdle /\ FetchIdle /\ FanIdle /\ GeoIdle
                /\ ConcIdle

SpecCycle == CycleInit /\ [][CycleNext]_vars

\* Two threads about to call the store; the other machines idle.
ConcInit ==
    /\ ConcStart /\ IdIdle /\ EnrichIdle /\ DedupIdle /\ BatchIdle
    /\ FetchIdle /\ FanIdle /\ GeoIdle /\ CycleIdle

SpecConc == ConcInit /\ [][ConcNext]_vars

\* The default specification is the store's.
Spec == SpecStore

(***************************************************************************)
(*                        Claims on the EventStore                         *)
(***************************************************************************)

\* C1: after any sequence of add, add_many and clear on a store created
\* with maximum max_events, the number of stored records is at most
\* max_events in every state between operations.
C1_SizeAtMostMax == Len(_events) <= _max_events

\* An add that was accepted by a full store: a record had to be evicted.
C1_Witness ==
    /\ op = "add"
    /\ addRet
    /\ Len(_events) = _max_events
    /\ distinctRun
    /\ Cardinality(inserted) > _max_events

\* The k records of S with the smallest timestamps.
Oldest(S, k) ==
    {r \in S : Cardinality({q \in S : q.timestamp < r.timestamp}) < k}

\* C2: eviction removes the oldest-by-timestamp records, never by insertion
\* order.  Once max_events + k records with distinct ids and distinct
\* timestamps have been inserted, in any order, exactly max_events records
\* are stored and the absent ones are exactly the k with the smallest
\* timestamps; the claim is the case k = 5.
C2_OldestEvicted ==
    \A k \in 0..5 :
        (/\ distinctRun
         /\ DistinctIdsTs(inserted)
         /\ Cardinality(inserted) = _max_events + k)
        => /\ Len(_events) = _max_events
           /\ Range(_events) \subseteq inserted
           /\ inserted \ Range(_events) = Oldest(inserted, k)
           /\ Cardinality(inserted \ Range(_events)) = k

\* max_events + 5 distinct records have been inserted and the one inserted
\* last is among the five oldest: insertion order is not timestamp order.
C2_Witness ==
    /\ distinctRun
    /\ Cardinality(inserted) = _max_events + 5
    /\ op = "add"
    /\ addRet
    /\ arg \in Oldest(inserted, 5)
    /\ \E e \in Range(_events) : e.id < arg.id

\* C3: add returns true exactly when no record with the same id was stored
\* before the call; when the id is present it returns false and leaves the
\* store unchanged.  add_many returns the number of its records for which
\* add returned true.
C3_AddReturn ==
    [][/\ op' = "add" =>
            /\ addRet' = ~HasId(_events, arg'.id)
            /\ (HasId(_events, arg'.id) => _events' = _events)
       /\ op' = "add_many" =>
            added' = Cardinality({i \in 1..Len(addLog') : addLog'[i]})]_vars

\* An add was refused because its id is stored, and the stored record of
\* that id is still the one stored first, not the one passed.
C3_Witness ==
    /\ op = "add"
    /\ ~addRet
    /\ \E i \in 1..Len(_events) : _events[i].id = arg.id /\ _events[i] # arg

\* l is ordered by timestamp, newest first.
IsSortedDesc(l) ==
    \A i \in 1..(Len(l) - 1) : l[i].timestamp >= l[i + 1].timestamp

\* C4: get_all returns every stored record, or with the flag exactly the
\* stored records that have both latitude and longitude, ordered by
\* timestamp descending, as a fresh sequence: the call leaves the store
\* unchanged and changing the returned sequence does not change the store.
C4_GetAll ==
    [][/\ op' = "get_all" =>
            /\ IsSortedDesc(listing')
            /\ Range(listing') =
                 {e \in Range(_events) :
                     with_location_only' =>
                         (e.latitude # None /\ e.longitude # None)}
            /\ Len(listing') = Cardinality(Range(listing'))
            /\ _events' = _events
       /\ op' = "mutate" => _events' = _events]_vars

\* The caller removed a record from the list get_all returned; the list had
\* been reordered (the store holds the older record first) and the store
\* still holds both records.
C4_Witness ==
    /\ op = "mutate"
    /\ ~with_location_only
    /\ Len(_events) = 2
    /\ _events[1].timestamp < _events[2].timestamp
    /\ Len(listing) = 1

(***************************************************************************)
(*                      Claims on the Event Record                         *)
(***************************************************************************)

\* C5: two records built from the same (title, source name) pair at
\* different wall-clock times and with different timestamps get the same
\* id; titles that differ only in letter case or in leading and trailing
\* whitespace, with the same source, also get the same id.
C5_SameId ==
    (first # None /\ second # None) => first[1].id = second[1].id

\* Both records are built, at different times, with different timestamps,
\* from titles that differ in letter case and in surrounding whitespace.
C5_Witness ==
    /\ first # None /\ second # None
    /\ firstAt # secondAt
    /\ first[1].timestamp # second[1].timestamp
    /\ Len(second[1].title) = Len(first[1].title) + 2
    /\ second[1].title[1] = " "
    /\ second[1].title[Len(second[1].title)] = " "
    /\ \E i \in 1..Len(first[1].title) :
           second[1].title[i + 1] # first[1].title[i]

\* C6: severity is always in 1..5: an integer severity given at
\* construction is clamped into [1,5], and the severity stays in [1,5]
\* after any number of enrichment steps, for every record a scraper returns
\* and every record in the store.
C6_SeverityInRange ==
    /\ ev # None => ev[1].severity \in 1..5
    /\ (ev # None /\ enrichCount = 0 /\ given.severity # None) =>
           ev[1].severity = (IF given.severity[1] < 1 THEN 1
                             ELSE IF given.severity[1] > 5 THEN 5
                             ELSE given.severity[1])
    /\ \A i \in 1..Len(returned) : returned[i].severity \in 1..5
    /\ \A i \in 1..Len(_events) : _events[i].severity \in 1..5

\* A record built with severity 9 was clamped to 5, enriched twice,
\* returned and stored.
C6_Witness ==
    /\ given.severity = Some(9)
    /\ enrichCount = 2
    /\ Len(_events) = 1
    /\ _events[1].severity = 5

\* C7: for every record returned by a scraper (API path and markup path,
\* after enrichment) and every record in the store, latitude is present if
\* and only if longitude is present.
C7_LatIffLon ==
    \A r \in Range(returned) \cup Range(_events) :
        (r.latitude = None) <=> (r.longitude = None)

\* C8: enrichment is idempotent: applying it to the result of an earlier
\* application changes no field of the record.
C8_EnrichIdempotent ==
    [][(enrichCount >= 1 /\ enrichCount' = enrichCount + 1) => ev' = ev]_vars

\* A record was enriched twice, and the first enrichment had set its event
\* type, its severity and its location.
C8_Witness ==
    /\ enrichCount = 2
    /\ ev[1].event_type # NewsEvent(given).event_type
    /\ ev[1].severity # NewsEvent(given).severity
    /\ ev[1].latitude # NewsEvent(given).latitude
    /\ ev[1].location_name # NewsEvent(given).location_name

\* The fields a scraper may supply and enrichment may fill.
OptionalFields ==
    {"event_type", "severity", "latitude", "longitude", "location_name"}

\* C9: enrichment only fills gaps: if the scraper supplied a value for event
\* type, severity, latitude, longitude, location name or source name when
\* it built the record, the field has that value after enrichment.
C9_SuppliedKept ==
    (ev # None /\ enrichCount >= 1) =>
        /\ \A f \in OptionalFields :
               given[f] # None => ev[1][f] = NewsEvent(given)[f]
        /\ given.source_name # <<>> => ev[1].source_name = given.source_name

\* C10: two records are duplicates exactly when their timestamps are at
\* most the window apart and their title similarity is at least the
\* threshold, with (120 minutes, 0.85) for equal source names and
\* (30 minutes, 0.65) otherwise, both bounds inclusive; titles equal after
\* lowercasing and trimming always count as similar; so a same-source pair
\* with similar titles 90 minutes apart is a duplicate and the same pair
\* from different sources is not.
C10_Duplicates ==
    dCompared =>
        LET same == dEvent.source_name = dExisting.source_name
            window == IF same THEN 120 ELSE 30
            gap == AbsDiff(dEvent.timestamp, dExisting.timestamp)
            a == Strip(Lower(dEvent.title))
            b == Strip(Lower(dExisting.title))
            matches == MatchedSize(a, b, 1, Len(a), 1, Len(b))
            similar85 == a = b \/ 200 * matches >= 85 * (Len(a) + Len(b))
            similar65 == a = b \/ 200 * matches >= 65 * (Len(a) + Len(b))
            similar == IF same THEN similar85 ELSE similar65
        IN  /\ dResult <=> (gap <= window /\ similar)
            /\ (a = b /\ gap <= window) => dResult
            /\ (gap = 90 /\ similar85) => (dResult <=> same)

\* Same source, exactly 120 minutes apart, titles that differ in case and
\* surrounding whitespace and are exactly 0.85 similar once normalised:
\* a duplicate.
C10_Witness ==
    /\ dCompared
    /\ dEvent.source_name = dExisting.source_name
    /\ AbsDiff(dEvent.timestamp, dExisting.timestamp) = 120
    /\ dEvent.title = TitleStrikeLoud
    /\ dExisting.title = TitleStrike
    /\ dResult

(***************************************************************************)
(*                    Claims on the two dedup passes                       *)
(***************************************************************************)

\* What the rule of C11 makes of kept when event arrives.
KeptRule(kept, event) ==
    LET dups == {i \in 1..Len(kept) : _is_duplicate(event, kept[i])}
    IN  IF dups = {} THEN Append(kept, event)
        ELSE LET i == CHOOSE x \in dups : \A y \in dups : x <= y
             IN  IF Len(event.summary) > Len(kept[i].summary)
                 THEN [kept EXCEPT ![i] = event]
                 ELSE kept

RECURSIVE KeptByRule(_, _)
KeptByRule(batch, n) ==
    IF n = 0 THEN <<>> ELSE KeptRule(KeptByRule(batch, n - 1), batch[n])

\* C11: intra-batch dedup processes the records in input order against a
\* kept-list: a record that duplicates no kept record is appended; one that
\* duplicates a kept record replaces the first such kept record in place
\* only if its summary is strictly longer and is discarded otherwise, also
\* on equal length; a batch of two duplicates yields the single record
\* with the longer summary.
C11_IntraBatch ==
    bStage \in {"deduped", "filtered"} =>
        /\ bKept = KeptByRule(bBatch, Len(bBatch))
        /\ (Len(bBatch) = 2 /\ _is_duplicate(bBatch[2], bBatch[1])) =>
               bKept = IF Len(bBatch[2].summary) > Len(bBatch[1].summary)
                       THEN <<bBatch[2]>>
                       ELSE <<bBatch[1]>>

\* The third record of the batch duplicates both kept records and has a
\* longer summary than the first: it took the first one's place.
C11_Witness ==
    /\ bStage = "deduped"
    /\ Len(bBatch) = 3
    /\ ~_is_duplicate(bBatch[2], bBatch[1])
    /\ _is_duplicate(bBatch[3], bBatch[1])
    /\ _is_duplicate(bBatch[3], bBatch[2])
    /\ bKept = <<bBatch[3], bBatch[2]>>

\* C12: the pass against the store returns exactly the records of the
\* batch, in batch order, that duplicate no record of the store's contents;
\* it changes neither the batch nor the store; with an empty store it
\* returns the whole batch.
C12_AgainstStore ==
    [][(bStage = "deduped" /\ bStage' = "filtered") =>
           /\ bNovel' = SelectSeq(bKept,
                  LAMBDA e : \A i \in 1..Len(bExisting) :
                                 ~_is_duplicate(e, bExisting[i]))
           /\ deduplicate_against_existing(bKept, <<>>) = bKept
           /\ bExisting = <<>> => bNovel' = bKept
           /\ bKept' = bKept
           /\ bExisting' = bExisting
           /\ _events' = _events]_vars

\* Of three kept records the middle one duplicates a stored record: the
\* other two are returned, in their order.
C12_Witness ==
    /\ bStage = "filtered"
    /\ Len(bKept) = 3
    /\ bExisting # <<>>
    /\ bNovel = <<bKept[1], bKept[3]>>

(***************************************************************************)
(*                   Claims on scrape, _fetch, the cache                   *)
(***************************************************************************)

\* C13: scrape never propagates an exception: whatever fails inside fetch,
\* parse or enrichment (a network error, an HTTP error status, malformed
\* content, an exception while converting one item), scrape returns a list,
\* empty when nothing could be produced; for the markup scraper, the
\* syndication scraper and the API-first scraper with its fallback.
C13_ScrapeNeverRaises ==
    /\ ~sOut.raised
    /\ (fPc = "done" /\ sFailure # "") => sOut.value = <<>>

\* The API-first scraper fell back to its markup path, fetched a page after
\* a failed attempt, and its parse raised: scrape returned the empty list.
C13_Witness ==
    /\ fPc = "done"
    /\ fScraper = Liveuamap
    /\ Len(fLog) = 2
    /\ sFailure = "parse"
    /\ sOut = Ok(<<>>)

\* The outcomes of an attempt that the spec calls transient.
Transient == {"500", "503", "ConnectionError", "Timeout"}

\* C14: a fetch whose every attempt fails transiently is retried
\* MAX_RETRIES (2) times after the initial attempt, with a backoff between
\* the attempts, and then ends with no content.
C14_RetryCount ==
    (fPc \in {"fetched", "done"} /\ fLog # <<>>
        /\ \A i \in 1..Len(fLog) : fLog[i] \in Transient) =>
        /\ Len(fLog) = 1 + 2
        /\ fSleeps >= Len(fLog) - 1
        /\ fResult = Ok(None)

\* C15: an attempt answered with status 401 or 403 is the last one of its
\* fetch, whatever number of attempts remains: no sleep follows it, and the
\* fetch ends with no content.
C15_NoRetryOnRejection ==
    \A i \in 1..Len(fLog) :
        fLog[i] \in {"401", "403"} =>
            /\ i = Len(fLog)
            /\ fPc \in {"fetched", "done"}
            /\ fSleeps = i - 1
            /\ fResult = Ok(None)

\* The first attempt was answered with 403: _fetch is over after one
\* request and no sleep.
C15_Witness ==
    /\ fPc = "fetched"
    /\ fLog = <<"403">>
    /\ fSleeps = 0
    /\ fResult = Ok(None)

C17_NoWaitForRunning ==
    (gPc = "exit" /\ gRunningAtExit # {}) => ENABLED JoinAndReturn

\* The error entries that say a source timed out.
TimeoutEntries(source) ==
    {i \in 1..Len(errors) : errors[i] = <<source, "timed out">>}

\* C18: a fetcher still running when the overall timeout elapses is
\* cancelled (it stops executing) and exactly one timeout entry naming it
\* is recorded; no timeout entry is recorded for a source whose result was
\* already collected.
C18_CancelStops ==
    gPc \in {"exit", "returned"} =>
        /\ \A x \in gAsked :
               /\ fut[x].state = "cancelled"
               /\ Cardinality(TimeoutEntries(x)) = 1
        /\ \A x \in FanSources \ pending : TimeoutEntries(x) = {}

\* C19: whatever the outcomes of the sources, the merged batch passed to
\* dedup holds every record returned by every fetcher that completed
\* successfully before the overall deadline.
C19_CompletedKept ==
    gPc \in {"exit", "returned"} =>
        \A x \in FanSources :
            (fut[x].state = "finished" /\ ~fut[x].result.raised
                /\ fut[x].doneAt <= 60) =>
                Range(fut[x].result.value) \subseteq Range(all_events)

\* C20: with 3 sources of which one fails to fetch and one is still
\* running at the overall deadline, the cycle yields the events of the
\* third and an error list of exactly two entries, one naming each of the
\* two failing sources.
C20_TwoErrors ==
    gPc = "returned" =>
        \A a \in FanSources, b \in FanSources, c \in FanSources :
            (/\ Cardinality({a, b, c}) = 3
             /\ gFetchFailed[a] /\ a \notin gRunningAtExit
             /\ b \in gRunningAtExit
             /\ ~gFetchFailed[c] /\ c \notin pending
             /\ fut[c].result.value # <<>>) =>
                /\ Range(fut[c].result.value) \subseteq Range(all_events)
                /\ Len(errors) = 2
                /\ {errors[i][1] : i \in 1..Len(errors)} = {a, b}

(***************************************************************************)
(*                 Further claims on the Event Store                       *)
(***************************************************************************)

\* C28: whenever add(record) returns true the record is in the store when
\* the call returns, so that get_all right after it includes the record.
C28_AddedIsPresent ==
    (op = "add" /\ addRet) => HasId(_events, arg.id)

(***************************************************************************)
(*                  Further claims on the response cache                   *)
(***************************************************************************)

\* C25: expiry is checked on read.  get(key) returns the stored value if
\* and only if the entry was set at most ttl seconds ago (then the store is
\* left as it is); otherwise it returns nothing and the entry is gone from
\* the store.  set(key, value) stores the value with the current time,
\* whatever the entry was before.
C25_PassiveExpiry ==
    [][/\ (fPc = "idle" /\ fPc' \in {"attempt", "fetched"}) =>
            LET key   == SOURCE_URL(fScraper')
                entry == cache[key]
            IN  IF entry # None /\ fNow - entry[1] <= _ttl
                THEN /\ fPc' = "fetched"
                     /\ fResult' = Ok(Some(entry[2]))
                     /\ cache' = cache
                ELSE /\ fPc' = "attempt"
                     /\ fResult' = Ok(None)
                     /\ cache'[key] = None
                     /\ \A u \in Urls \ {key} : cache'[u] = cache[u]
       /\ (fPc = "attempt" /\ fPc' = "fetched" /\ fResult'.value # None) =>
            cache'[SOURCE_URL(fScraper)] = <<fNow, fResult'.value[1]>>]_vars

\* A read more than ttl seconds after the entry was set returned nothing
\* and removed the entry: _fetch is in its loop, before the first request.
C25_Witness ==
    /\ fPc = "attempt"
    /\ fLog = <<>>
    /\ fKnown[SOURCE_URL(fScraper)] # None
    /\ fCallAt - fKnown[SOURCE_URL(fScraper)][1] > _ttl
    /\ fResult = Ok(None)
    /\ cache[SOURCE_URL(fScraper)] = None

(***************************************************************************)
(*               Claims on classification and location                     *)
(***************************************************************************)

\* The priority the categories are given: 1 is the highest.
Priority(category) ==
    CASE category = "airstrike"         -> 1
      [] category = "missile"           -> 2
      [] category = "explosion"         -> 3
      [] category = "alert"             -> 4
      [] category = "military_movement" -> 5
      [] category = "humanitarian"      -> 6
      [] category = "political"         -> 7
      [] OTHER                          -> 8

Covered(text, name, p) ==
    \E k \in 1..Len(LOCATIONS) : \E q \in 1..Len(text) :
        LET longer == LOCATIONS[k].name
        IN  /\ Len(longer) > Len(name)
            /\ NameAt(text, q, longer)
            /\ q <= p
            /\ p + Len(name) <= q + Len(longer)

\* Where name appears in text on its own account.
Appearances(text, name) ==
    {p \in 1..Len(text) : NameAt(text, p, name) /\ ~Covered(text, name, p)}

\* C24: matching is longest-name-first.  An occurrence of a known name
\* resolves to that name, and a shorter known name contained in it is not
\* reported for that occurrence: the names reported are exactly the known
\* names that appear in the text outside any longer known name.  Each is
\* reported once, with its coordinate from the gazetteer, in the order of
\* first appearance; extract_primary_location returns the first of them,
\* or nothing when there is none.
C24_LongestNameFirst ==
    geoDone =>
        LET n      == Len(geoLocations)
            key(i) == Lower(geoLocations[i][1])
        IN  /\ {key(i) : i \in 1..n}
                 = {LOCATIONS[k].name : k \in
                      {k \in 1..Len(LOCATIONS) :
                          Appearances(geoText, LOCATIONS[k].name) # {}}}
            /\ \A i \in 1..n :
                   /\ geoLocations[i][1] = Title(key(i))
                   /\ LocationsGet(key(i))
                        = Some(<<geoLocations[i][2], geoLocations[i][3]>>)
            /\ \A i \in 1..n : \A j \in 1..n :
                   i < j =>
                       /\ key(i) # key(j)
                       /\ \E p \in Appearances(geoText, key(i)) :
                              \A q \in Appearances(geoText, key(j)) : p < q
            /\ geoPrimary = IF n = 0 THEN None ELSE Some(geoLocations[1])

(***************************************************************************)
(*              Further claims on the two dedup passes                     *)
(***************************************************************************)

\* C26: the result of intra-batch dedup contains no two records that are
\* duplicates of each other under the duplicate predicate, whatever the
\* batch (also when a kept record was replaced by a later one).
C26_NoDuplicatesKept ==
    bStage \in {"deduped", "filtered"} =>
        \A i \in 1..Len(bKept) : \A j \in 1..Len(bKept) :
            i # j => ~_is_duplicate(bKept[i], bKept[j])

(***************************************************************************)
(*                     Claims on the refresh cycle                         *)
(***************************************************************************)

\* C21: a refresh cycle (fan-out, intra-batch dedup, batch-vs-store dedup,
\* store insertion) never raises, whatever records the fetchers return.
C21_RefreshNeverRaises == ~rOutcome.raised

C30_TimestampsAware ==
    \A i \in 1..Len(rMerged) : rMerged[i].tzinfo # None

(***************************************************************************)
(*                   Further claims on the fan-out                         *)
(***************************************************************************)

\* The error entries that name a source.
EntriesNaming(source) == {i \in 1..Len(errors) : errors[i][1] = source}

\* C29: in every refresh cycle each enabled source is accounted for exactly
\* once, however the completions of the fetchers interleave with the
\* overall deadline: either the records its fetcher returned were merged
\* into the batch, or exactly one error entry names it; never neither and
\* never both.
C29_AccountedOnce ==
    gPc \in {"exit", "returned"} =>
        \A x \in FanSources :
            LET merged == x \notin pending /\ ~fut[x].result.raised
            IN  \/ merged /\ EntriesNaming(x) = {}
                \/ ~merged /\ Cardinality(EntriesNaming(x)) = 1

(***************************************************************************)
(*                  Claims on the store under two threads                  *)
(***************************************************************************)

\* What a call returns, and what the store holds after it, when it runs
\* alone on a store holding evs.
Alone(evs, call) ==
    IF call.op = "add"
    THEN LET r == add(evs, _max_events, call.batch[1])
         IN  [events |-> r.events, ret |-> r.ret]
    ELSE IF call.op = "add_many"
    THEN LET r == add_many(evs, _max_events, call.batch)
         IN  [events |-> r.events, ret |-> r.added]
    ELSE [events |-> evs, ret |-> get_all(evs, call.flag).list]

\* The two calls gave what they give when a runs wholly before b.
AsInOrder(a, b) ==
    LET ra == Alone(started, threads[a].call)
        rb == Alone(ra.events, threads[b].call)
    IN  /\ threads[a].ret = Some(ra.ret)
        /\ threads[b].ret = Some(rb.ret)
        /\ Range(_events) = Range(rb.events)

\* C22: the store is safe under concurrent use.  However an add or
\* add_many of one thread interleaves with an add, add_many or get_all of
\* another, no call raises, the results are those of one of the two
\* sequential orders of the calls (of two concurrent adds of the same id
\* exactly one returns true), and once the calls are over the size is at
\* most max_events.
C22_ConcurrentSafe ==
    /\ \A t \in Threads : threads[t].pc # "raised"
    /\ (\A t \in Threads : threads[t].pc = "done") =>
           /\ AsInOrder(1, 2) \/ AsInOrder(2, 1)
           /\ Len(_events) <= _max_events

====
